---- MODULE Spec2Model ----
(***************************************************************************)
(* browtool: a Chrome extension that records clicks and typing into a      *)
(* per-tab tape, and a compiler that lowers a tape to a Playwright script. *)
(*                                                                         *)
(* The parts of the repository are modelled each with its own              *)
(* specification over its own variables (the other variables stay put):    *)
(*   SpecLoc  the compiler's locator choice, pickLocatorExpr               *)
(*            (compiler/compile.mjs);                                      *)
(*   SpecCap  the content script's capture engine: the click, input,      *)
(*            change and blur listeners, the debounce timers and the       *)
(*            pending-flush table (the content script of the extension);   *)
(*   SpecBg   the background service worker: the message handlers and     *)
(*            tabs.onRemoved, interleaved at their storage awaits          *)
(*            (extension/background.js);                                   *)
(*   SpecSeq  the same service worker when each handler runs to           *)
(*            completion before the next message arrives;                  *)
(*   SpecCompile  the compiler's buildScript and stepToCode on a parsed    *)
(*            tape (compiler/compile.mjs);                                 *)
(*   SpecSub  parameter extraction and substitution before a replay; its   *)
(*            code is not among the sources and is modelled from the       *)
(*            specification;                                               *)
(*   SpecHints  the content script's descriptor builder, buildHints with   *)
(*            safeTrim and buildCssFallback, on elements with ancestors    *)
(*            and on elements with long texts;                             *)
(*   SpecSync  Start and Stop in the service worker together with the      *)
(*            content script of one tab: its hello on load and the         *)
(*            messages that set its recording flag;                        *)
(*   SpecLegacy  the legacy content script, which keeps its recorded       *)
(*            actions in storage to survive a reload.                      *)
(*                                                                         *)
(* JavaScript strings are sequences of one-character strings, so that      *)
(* quoting and escaping are computed, not assumed.                         *)
(***************************************************************************)
EXTENDS Naturals, Integers, Sequences, FiniteSets, TLC

VARIABLES
    \* ---- compiler (SpecLoc)
    target,             \* the TargetDescriptor handed to pickLocatorExpr
    loc,                \* the locator expression it returned (NotRun before)
    \* ---- compiler (SpecCompile)
    tape,               \* the tape object handed to buildScript
    sourcePath,         \* the path of the tape file
    script,             \* the script text returned, line by line
    \* ---- content script (SpecCap)
    RECORDING_ENABLED,  \* the content script's flag
    pendingTypeByEl,    \* element -> NoPending or [value, timer]
    timers,             \* the page's live setTimeout callbacks
    nextTimer,          \* the id the next setTimeout returns
    sent,               \* the BT_RECORD_STEP messages sent, in order
    burst,              \* history: per element, the running burst of edits
    lastSched,          \* history: per element, the timer of its last edit
    flushed,            \* history: the timer id of every edit flushed
    lastProtected,      \* history: the protected field last edited
    untrusted,          \* history: the last event handled was not trusted
    \* ---- background service worker (SpecBg, SpecSeq)
    tapeStore,          \* chrome.storage.local["browtool:tapeByTab"]
    stateStore,         \* chrome.storage.local["browtool:stateByTab"]
    handlers,           \* the in-flight listener invocations
    started,            \* how many invocations have begun (bounded)
    discarded,          \* history: per tab, the steps a Clear has discarded
    \* ---- parameter substitution (SpecSub)
    subScript,          \* the stored script text
    subValues,          \* the name -> value map supplied for a replay
    subPhase,           \* "ready", "failed", "substituted" or "replayed"
    subResult,          \* the text substitution returned
    executed,           \* the text handed to the automation engine
    \* ---- descriptor builder (SpecHints)
    element,            \* the element described, with its ancestors
    hints,              \* the descriptor buildHints returned
    \* ---- service worker and content script in step (SpecSync)
    channel,            \* messages and responses on their way to the content script
    csLoaded,           \* the content script has loaded and sent its hello
    generation,         \* the loads of the page so far: the script of now
    helloInFlight,      \* the hellos on their way to the service worker
    \* ---- legacy content script (SpecLegacy)
    isRecording,        \* the script's recording flag
    recordedActions,    \* the actions recorded, in memory
    initialUrl,         \* the URL the recording began at
    persisted,          \* the recording state in storage
    pendingGet          \* what storage will answer the script's get on load

locVars == <<target, loc, tape, sourcePath, script>>
capVars == <<RECORDING_ENABLED, pendingTypeByEl, timers, nextTimer,
             sent, burst, lastSched, flushed, lastProtected, untrusted>>
bgVars  == <<tapeStore, stateStore, handlers, started, discarded>>
subVars == <<subScript, subValues, subPhase, subResult, executed>>
hintVars == <<element, hints>>
syncVars == <<channel, csLoaded, generation, helloInFlight>>
legacyVars == <<isRecording, recordedActions, initialUrl, persisted, pendingGet>>
vars    == <<locVars, capVars, bgVars, subVars, hintVars, syncVars, legacyVars>>

(***************************************************************************)
(* JavaScript values                                                       *)
(***************************************************************************)
JNull == [k |-> "null"]
Str(s) == [k |-> "str", s |-> s]

\* JavaScript truthiness of a string-or-null value: null, undefined and ""
\* are falsy.
Truthy(v) == v.k = "str" /\ v.s # <<>>

\* a || b
Or(a, b) == IF Truthy(a) THEN a ELSE b

\* String(s ?? "")
ToStr(v) == IF v.k = "str" THEN v.s ELSE <<>>

RECURSIVE EscapeChars(_)
\* JSON.stringify's escaping of a string's characters: a double quote and a
\* backslash get a backslash in front; the other characters of the model's
\* alphabet stay.
EscapeChars(s) ==
    IF s = <<>> THEN <<>>
    ELSE (IF Head(s) = "\"" THEN <<"\\", "\"">>
          ELSE IF Head(s) = "\\" THEN <<"\\", "\\">>
          ELSE <<Head(s)>>) \o EscapeChars(Tail(s))

\* jsString(s): JSON.stringify(String(s ?? ""))
jsString(v) == <<"\"">> \o EscapeChars(ToStr(v)) \o <<"\"">>

(***************************************************************************)
(* The compiler: pickLocatorExpr                                           *)
(***************************************************************************)
\* The script text is kept as a sequence of fragments: each literal piece of
\* a template is one fragment, each interpolated string its characters.
CallExpr(method, arg) == <<"page.", method, "(">> \o arg \o <<")">>

RoleExpr(role, name) ==
    <<"page.", "getByRole", "(">> \o jsString(role) \o <<", { name: ">>
        \o jsString(name) \o <<" })">>

BodyExpr == <<"page.", "locator", "(", "\"", "body", "\"", ")">>

\* A mutant of pickLocatorExpr: the role+name test is made before the test
\* identifier.
pickLocatorExprRoleFirst(t) ==
    LET name == Or(Or(t.accessibleName, t.text), t.ariaLabel) IN
    IF Truthy(t.role) /\ Truthy(name) THEN RoleExpr(t.role, name)
    ELSE IF Truthy(t.testId) THEN CallExpr("getByTestId", jsString(t.testId))
    ELSE IF Truthy(t.labelText) THEN CallExpr("getByLabel", jsString(t.labelText))
    ELSE IF Truthy(t.placeholder) THEN CallExpr("getByPlaceholder", jsString(t.placeholder))
    ELSE IF Truthy(t.id) THEN CallExpr("locator", jsString(Str(<<"#">> \o t.id.s)))
    ELSE IF Truthy(t.css) THEN CallExpr("locator", jsString(t.css))
    ELSE IF Truthy(t.tag) THEN CallExpr("locator", jsString(t.tag))
    ELSE BodyExpr

\* A mutant of pickLocatorExpr: the chain ends at the CSS fallback and the
\* function falls off its end, so the expression is empty.
pickLocatorExprNoFallback(t) ==
    LET name == Or(Or(t.accessibleName, t.text), t.ariaLabel) IN
    IF Truthy(t.testId) THEN CallExpr("getByTestId", jsString(t.testId))
    ELSE IF Truthy(t.role) /\ Truthy(name) THEN RoleExpr(t.role, name)
    ELSE IF Truthy(t.labelText) THEN CallExpr("getByLabel", jsString(t.labelText))
    ELSE IF Truthy(t.placeholder) THEN CallExpr("getByPlaceholder", jsString(t.placeholder))
    ELSE IF Truthy(t.id) THEN CallExpr("locator", jsString(Str(<<"#">> \o t.id.s)))
    ELSE IF Truthy(t.css) THEN CallExpr("locator", jsString(t.css))
    ELSE <<>>

\* pickLocatorExpr(target). A null or missing target reads every field as
\* undefined, which is the descriptor whose fields are all JNull.
pickLocatorExpr(t) ==
    LET name == Or(Or(t.accessibleName, t.text), t.ariaLabel) IN
    IF Truthy(t.testId) THEN CallExpr("getByTestId", jsString(t.testId))
    ELSE IF Truthy(t.role) /\ Truthy(name) THEN RoleExpr(t.role, name)
    ELSE IF Truthy(t.labelText) THEN CallExpr("getByLabel", jsString(t.labelText))
    ELSE IF Truthy(t.placeholder) THEN CallExpr("getByPlaceholder", jsString(t.placeholder))
    ELSE IF Truthy(t.id) THEN CallExpr("locator", jsString(Str(<<"#">> \o t.id.s)))
    ELSE IF Truthy(t.css) THEN CallExpr("locator", jsString(t.css))
    ELSE IF Truthy(t.tag) THEN CallExpr("locator", jsString(t.tag))
    ELSE BodyExpr

\* The values a descriptor field takes in the model: absent, the empty
\* string (buildHints stores safeTrim's "" for a whitespace-only attribute),
\* and one value of the field's own, so that the expression shows which
\* field it was built from. The test identifier's value holds a double
\* quote and a backslash. buildHints never stores "" for the tag or the CSS
\* fallback (buildCssFallback returns a path or null).
FieldVals(c) == {JNull, Str(<<>>), Str(<<c>>)}

Targets ==
    [testId : {JNull, Str(<<>>), Str(<<"T", "\"", "\\">>)},
     role : FieldVals("r"),
     accessibleName : FieldVals("n"),
     text : FieldVals("x"),
     ariaLabel : FieldVals("a"),
     labelText : FieldVals("l"),
     placeholder : FieldVals("p"),
     id : FieldVals("i"),
     css : {JNull, Str(<<"c">>)},
     tag : {JNull, Str(<<"g">>)}]

\* A null or missing target.
NoTarget ==
    [testId |-> JNull, role |-> JNull, accessibleName |-> JNull, text |-> JNull,
     ariaLabel |-> JNull, labelText |-> JNull, placeholder |-> JNull,
     id |-> JNull, css |-> JNull, tag |-> JNull]

NotRun == <<"<not run>">>

(***************************************************************************)
(* The compiler: stepToCode and buildScript                                *)
(***************************************************************************)
\* Bound of the model.
MaxSteps == 2         \* steps in a tape

\* `${idx + 1}`: the decimal digits of a number.
DigitChar(d) == <<"0", "1", "2", "3", "4", "5", "6", "7", "8", "9">>[d + 1]

RECURSIVE NumStr(_)
NumStr(n) ==
    IF n < 10 THEN <<DigitChar(n)>>
    ELSE NumStr(n \div 10) \o <<DigitChar(n % 10)>>

\* a ?? b
Nullish(a, b) == IF a.k = "null" THEN b ELSE a

\* The values of step.t the compiler knows.
TypeKind == Str(<<"t", "y", "p", "e">>)
ClickKind == Str(<<"c", "l", "i", "c", "k">>)

\* The lines every step's block starts with, and the fixed lines of the two
\* known blocks.
StepComment(idx, what) == <<"  // step ">> \o NumStr(idx + 1) \o what
SettleDelay == <<"  await page.waitForTimeout(50);">>
SoftWait ==
    <<"  await page.waitForLoadState(\"domcontentloaded\")", ".catch(() => {});">>
EmptyLine == <<>>

\* A mutant of stepToCode: a step of an unknown type gets no line at all.
stepToCodeSkipsUnknown(step, idx) ==
    LET expr == pickLocatorExpr(step.target)
        value == Nullish(step.value, Str(<<>>))
    IN  IF step.t = TypeKind
        THEN << StepComment(idx, <<": type">>),
                <<"  await ">> \o expr \o <<".fill(">> \o jsString(value) \o <<");">>,
                SettleDelay >>
        ELSE IF step.t = ClickKind
        THEN << StepComment(idx, <<": click">>),
                <<"  await ">> \o expr \o <<".click();">>,
                SoftWait >>
        ELSE << >>

\* A mutant of stepToCode: the value is put between quotes as it is.
stepToCodeRawValue(step, idx) ==
    LET expr == pickLocatorExpr(step.target)
        value == Nullish(step.value, Str(<<>>))
    IN  IF step.t = TypeKind
        THEN << StepComment(idx, <<": type">>),
                <<"  await ">> \o expr \o <<".fill(">>
                    \o (<<"\"">> \o ToStr(value) \o <<"\"">>) \o <<");">>,
                SettleDelay >>
        ELSE IF step.t = ClickKind
        THEN << StepComment(idx, <<": click">>),
                <<"  await ">> \o expr \o <<".click();">>,
                SoftWait >>
        ELSE << StepComment(idx, <<": unsupported step type ">>
                                   \o jsString(step.t) \o <<" (ignored)">>) >>

\* stepToCode(step, idx): the lines of the step's block (the code joins
\* them with "\n"). A null step reads every field as undefined.
stepToCode(step, idx) ==
    LET expr == pickLocatorExpr(step.target)
        value == Nullish(step.value, Str(<<>>))
    IN  IF step.t = TypeKind
        THEN << StepComment(idx, <<": type">>),
                <<"  await ">> \o expr \o <<".fill(">> \o jsString(value) \o <<");">>,
                SettleDelay >>
        ELSE IF step.t = ClickKind
        THEN << StepComment(idx, <<": click">>),
                <<"  await ">> \o expr \o <<".click();">>,
                SoftWait >>
        ELSE << StepComment(idx, <<": unsupported step type ">>
                                   \o jsString(step.t) \o <<" (ignored)">>) >>

\* The values of tape.steps: missing, an array, or an object that is no
\* array (its property "0" is then what steps[0] reads).
NoSteps == [k |-> "undef"]
StepList(items) == [k |-> "list", items |-> items]
StepObject(zero) == [k |-> "obj", zero |-> zero]

\* Array.isArray(tape?.steps) ? tape.steps : []
StepsOfTape(tp) == IF tp.steps.k = "list" THEN tp.steps.items ELSE <<>>

\* tape?.steps?.[0]?.url
FirstStepUrl(tp) ==
    IF tp.steps.k = "list"
    THEN (IF tp.steps.items = <<>> THEN JNull ELSE tp.steps.items[1].url)
    ELSE IF tp.steps.k = "obj" THEN tp.steps.zero.url
    ELSE JNull

AboutBlank == Str(<<"about:blank">>)

\* tape?.startUrl || tape?.steps?.[0]?.url || "about:blank"
StartUrlOf(tp) == Or(Or(tp.startUrl, FirstStepUrl(tp)), AboutBlank)

\* path.basename(sourcePath): what follows the last slash.
Basename(p) ==
    IF \E i \in 1..Len(p) : p[i] = "/"
    THEN LET last == CHOOSE i \in 1..Len(p) :
                        p[i] = "/" /\ \A j \in (i + 1)..Len(p) : p[j] # "/"
         IN  SubSeq(p, last + 1, Len(p))
    ELSE p

GotoLine(url) ==
    <<"  await page.goto(">> \o jsString(url)
        \o <<", { waitUntil: \"domcontentloaded\" });">>

\* The lines before the steps' blocks; the last two are the navigation and
\* an empty line.
Bootstrap(startUrl, path) ==
    << <<"import fs from \"node:fs\";">>,
       <<"// Generated from ">> \o Basename(path) \o <<" by browtool compiler">>,
       <<"import { chromium } from \"playwright\";">>,
       EmptyLine,
       <<"const TAPE_PATH = ">> \o jsString(Str(path)) \o <<";">>,
       EmptyLine,
       <<"(async () => {">>,
       <<"  const browser = await chromium.launch({ headless: true });">>,
       <<"  const page = await browser.newPage({ viewport: { width: 1280, height: 800 } });">>,
       EmptyLine,
       <<"  page.on(\"console\", (msg) => console.log(\"[console]\", msg.type(), msg.text()));">>,
       <<"  page.on(\"pageerror\", (err) => console.log(\"[pageerror]\", err?.message || String(err)));">>,
       EmptyLine,
       GotoLine(startUrl),
       EmptyLine >>

\* The lines after the steps' blocks.
Teardown ==
    << <<"  const finalUrl = page.url();">>,
       <<"  const html = await page.content();">>,
       <<"  console.log(\"FINAL_URL:\", finalUrl);">>,
       <<"  console.log(\"HTML_LENGTH:\", html.length);">>,
       EmptyLine,
       <<"  await page.screenshot({ path: \"out/final.png\", fullPage: true });">>,
       <<"  await fs.promises.writeFile(\"out/final.html\", html, \"utf-8\");">>,
       EmptyLine,
       <<"  await browser.close();">>,
       <<"})();">> >>

RECURSIVE StepBlocks(_, _)
\* steps.forEach((s, i) => lines.push(stepToCode(s, i), ``)), from the
\* i-th step on.
StepBlocks(steps, i) ==
    IF i > Len(steps) THEN <<>>
    ELSE stepToCode(steps[i], i - 1) \o <<EmptyLine>> \o StepBlocks(steps, i + 1)

\* A mutant of buildScript: the start URL is tape.startUrl or about:blank,
\* the first step's URL is not looked at.
buildScriptNoInference(tp, path) ==
    Bootstrap(Or(tp.startUrl, AboutBlank), path)
        \o StepBlocks(StepsOfTape(tp), 1) \o Teardown

\* buildScript(tape, sourcePath): the text returned, as its lines.
buildScript(tp, path) ==
    Bootstrap(StartUrlOf(tp), path) \o StepBlocks(StepsOfTape(tp), 1) \o Teardown

\* A mutant of buildScriptLeaves: the inferred start URL is stored in the
\* tape.
buildScriptStoresStartUrl(tp) == [tp EXCEPT !.startUrl = StartUrlOf(tp)]

\* The tape object as buildScript leaves it: neither buildScript nor
\* stepToCode nor pickLocatorExpr assigns to the tape or to a part of it.
buildScriptLeaves(tp) == tp

\* The tapes compiled in the model. A step is a record of the fields the
\* compiler reads; the null step has them all undefined.
HintTargets ==
    {NoTarget,
     [NoTarget EXCEPT !.tag = Str(<<"g">>), !.testId = Str(<<"T", "\"", "\\">>)],
     [NoTarget EXCEPT !.tag = Str(<<"g">>), !.placeholder = Str(<<"p">>)]}

TapeSteps ==
    [t : {JNull, TypeKind, ClickKind, Str(<<"h", "\"">>)},
     url : {JNull, Str(<<"u">>)},
     target : HintTargets,
     value : {JNull, Str(<<"w", "\"">>)}]

NullStep == [t |-> JNull, url |-> JNull, target |-> NoTarget, value |-> JNull]

StepLists == UNION {[1..n -> TapeSteps] : n \in 0..MaxSteps}

\* The tape of the first scenario: one click, no startUrl.
ClickScenarioUrl ==
    Str(<<"h", "t", "t", "p", "s", ":", "/", "/", "x", ".", "t", "e", "s", "t", "/">>)
ClickScenarioTape ==
    [startUrl |-> JNull,
     steps |-> StepList(<<
        [t |-> ClickKind, url |-> ClickScenarioUrl, value |-> JNull,
         target |-> [NoTarget EXCEPT
                       !.tag = Str(<<"b", "u", "t", "t", "o", "n">>),
                       !.testId = Str(<<"s", "u", "b", "m", "i", "t">>)]] >>)]

\* The tape of the second scenario: one type step, a placeholder its only
\* hint.
TypeScenarioValue == Str(<<"w", "i", "k", "i", "p", "e", "d", "i", "a">>)
TypeScenarioTape ==
    [startUrl |-> Str(<<"s">>),
     steps |-> StepList(<<
        [t |-> TypeKind, url |-> Str(<<"s">>), value |-> TypeScenarioValue,
         target |-> [NoTarget EXCEPT
                       !.tag = Str(<<"i", "n", "p", "u", "t">>),
                       !.placeholder = Str(<<"S", "e", "a", "r", "c", "h">>)]] >>)]

Tapes ==
    [startUrl : {JNull, Str(<<>>), Str(<<"s">>)},
     steps : {NoSteps, StepObject(NullStep),
              StepObject([NullStep EXCEPT !.url = Str(<<"u">>)])}
             \cup {StepList(items) : items \in StepLists}]
    \cup {ClickScenarioTape, TypeScenarioTape}

SourcePaths == {<<"/", "d", "/", "t", ".", "j">>}

NoInput == [startUrl |-> JNull, steps |-> NoSteps]
NotCompiled == << <<"<not compiled>">> >>

(***************************************************************************)
(* The content script: the descriptor builder                              *)
(***************************************************************************)
\* Bound of the model.
MaxDepth == 5         \* levels of the page above and including the element

\* The characters /\s/ matches, of the model's alphabet.
Whitespace == {" ", "\t", "\n"}

RECURSIVE DropSpace(_)
\* A string without its leading whitespace.
DropSpace(s) ==
    IF s # <<>> /\ Head(s) \in Whitespace THEN DropSpace(Tail(s)) ELSE s

\* replace(/\s+/g, " "): of every run of whitespace the first character
\* stays, as a space.
RunStart(m) == m.c \notin Whitespace \/ m.first
Collapse(s) ==
    LET marked == [i \in 1..Len(s) |->
                     [c |-> s[i], first |-> i = 1 \/ s[i - 1] \notin Whitespace]]
        kept == SelectSeq(marked, RunStart)
    IN  [i \in 1..Len(kept) |-> IF kept[i].c \in Whitespace THEN " " ELSE kept[i].c]

RECURSIVE DropSpaceEnd(_)
DropSpaceEnd(s) ==
    IF s # <<>> /\ s[Len(s)] \in Whitespace
    THEN DropSpaceEnd(SubSeq(s, 1, Len(s) - 1)) ELSE s

\* trim()
Trim(s) == DropSpaceEnd(DropSpace(s))

\* safeTrim(s, maxLen): "" for a falsy s; else whitespace runs made one
\* space, the ends trimmed, and the result cut at maxLen.
safeTrim(v, maxLen) ==
    IF ~Truthy(v) THEN <<>>
    ELSE LET t == Trim(Collapse(v.s)) IN
         IF Len(t) > maxLen THEN SubSeq(t, 1, maxLen) ELSE t

\* x || null, of a string x
OrNull(s) == IF s = <<>> THEN JNull ELSE Str(s)

\* The attributes getTestId looks at, in its order.
TestIdAttrs == <<"data-testid", "data-test", "data-qa", "data-cy">>

RECURSIVE FirstTestId(_, _)
FirstTestId(el, i) ==
    IF i > Len(TestIdAttrs) THEN JNull
    ELSE LET v == el.attrs[TestIdAttrs[i]] IN
         IF Truthy(v) /\ safeTrim(v, 80) # <<>> THEN Str(safeTrim(v, 80))
         ELSE FirstTestId(el, i + 1)

\* getTestId(el)
getTestId(el) == FirstTestId(el, 1)

\* getLabelText(el): the text of the first of el.labels, else that of the
\* label el is wrapped in, else null.
getLabelText(el) ==
    IF el.labels # <<>> /\ safeTrim(el.labels[1], 120) # <<>>
    THEN Str(safeTrim(el.labels[1], 120))
    ELSE IF el.wrapping # JNull /\ safeTrim(el.wrapping, 120) # <<>>
    THEN Str(safeTrim(el.wrapping, 120))
    ELSE JNull

\* tagName.toLowerCase(), of the tags of the model
LowerTag(tagName) ==
    CASE tagName = "BUTTON" -> "button"
      [] tagName = "A" -> "a"
      [] tagName = "INPUT" -> "input"
      [] tagName = "TEXTAREA" -> "textarea"
      [] tagName = "DIV" -> "div"
      [] tagName = "BODY" -> "body"
      [] OTHER -> tagName

\* toLowerCase() of a type attribute of the model
LowerType(v) ==
    IF v = Str(<<"Checkbox">>) THEN <<"checkbox">>
    ELSE IF v.k = "str" THEN v.s ELSE <<>>

\* bestEffortRole(el)
bestEffortRole(el) ==
    LET tag == LowerTag(el.tagName)
        t == LowerType(Or(el.attrs["type"], Str(<<"text">>)))
    IN  IF Truthy(el.attrs["role"]) THEN Str(safeTrim(el.attrs["role"], 60))
        ELSE IF tag = "button" THEN Str(<<"button">>)
        ELSE IF tag = "a" /\ Truthy(el.attrs["href"]) THEN Str(<<"link">>)
        ELSE IF tag = "input"
        THEN (IF t = <<"checkbox">> THEN Str(<<"checkbox">>)
              ELSE IF t = <<"radio">> THEN Str(<<"radio">>)
              ELSE IF t \in {<<"submit">>, <<"button">>} THEN Str(<<"button">>)
              ELSE Str(<<"textbox">>))
        ELSE IF tag = "textarea" THEN Str(<<"textbox">>)
        ELSE JNull

RECURSIVE FirstLabelledBy(_, _)
\* The first node aria-labelledby names whose text is not empty.
FirstLabelledBy(texts, i) ==
    IF i > Len(texts) THEN <<>>
    ELSE IF safeTrim(texts[i], 120) # <<>> THEN safeTrim(texts[i], 120)
    ELSE FirstLabelledBy(texts, i + 1)

\* bestEffortAccessibleName(el)
bestEffortAccessibleName(el) ==
    IF Truthy(el.attrs["aria-label"]) THEN Str(safeTrim(el.attrs["aria-label"], 120))
    ELSE IF FirstLabelledBy(el.labelledBy, 1) # <<>>
    THEN Str(FirstLabelledBy(el.labelledBy, 1))
    ELSE IF getLabelText(el) # JNull THEN getLabelText(el)
    ELSE IF LowerTag(el.tagName) \in {"button", "a"} /\ safeTrim(el.text, 120) # <<>>
    THEN Str(safeTrim(el.text, 120))
    ELSE JNull

\* A string with a backslash before each of its characters in special.
NonEmpty(c) == c # ""
BackslashBefore(s, special) ==
    SelectSeq([i \in 1..(2 * Len(s)) |->
                 IF i % 2 = 0 THEN s[i \div 2]
                 ELSE IF s[(i + 1) \div 2] \in special THEN "\\" ELSE ""],
              NonEmpty)

\* cssEscape(value): a backslash before every backslash and double quote.
cssEscape(s) == BackslashBefore(s, {"\\", "\""})

\* CSS.escape(id), of the model's alphabet: a leading digit is written as
\* its code point, a character that is no letter, digit, "-" or "_" gets a
\* backslash, the others stay.
Digits == {"0", "1", "2", "3", "4", "5", "6", "7", "8", "9"}
IdentChars == {"i", "x", "y", "a", "b", "-", "_"} \cup Digits

CssEscapeRest(s) ==
    BackslashBefore(s, {s[i] : i \in 1..Len(s)} \ IdentChars)

CssEscapeIdent(s) ==
    IF s # <<>> /\ Head(s) \in Digits
    THEN <<"\\", "3", Head(s), " ">> \o CssEscapeRest(Tail(s))
    ELSE CssEscapeRest(s)

\* id && safeTrim(id, 80) && !/\s/.test(id)
UsableId(el) ==
    LET id == el.attrs["id"] IN
    /\ Truthy(id)
    /\ safeTrim(id, 80) # <<>>
    /\ \A i \in 1..Len(id.s) : id.s[i] \notin Whitespace

\* [name="value"]
AttrSelector(name, value) == <<"[", name, "=\"">> \o cssEscape(value) \o <<"\"]">>

\* The levels the ancestry loop of buildCssFallback visits at most.
MAX_PATH_LEVELS == 4

RECURSIVE PathParts(_, _)
\* The parts the ancestry loop of buildCssFallback collects from level i
\* on, the outermost first (each part is unshifted). The loop ends at a
\* level with a usable id, after MAX_PATH_LEVELS levels, or at the root.
PathParts(chain, i) ==
    IF i > MAX_PATH_LEVELS \/ i > Len(chain) THEN <<>>
    ELSE LET cur == chain[i]
             t == LowerTag(cur.tagName)
         IN  IF t = "" THEN <<>>
             ELSE IF UsableId(cur)
             THEN << <<t, "#">> \o CssEscapeIdent(cur.attrs["id"].s) >>
             ELSE PathParts(chain, i + 1)
                    \o << <<t>> \o (IF getTestId(cur) # JNull
                                    THEN AttrSelector("data-testid", getTestId(cur).s)
                                    ELSE <<>>) >>

RECURSIVE JoinPath(_)
\* parts.join(" > ")
JoinPath(parts) ==
    IF parts = <<>> THEN <<>>
    ELSE IF Len(parts) = 1 THEN parts[1]
    ELSE parts[1] \o <<" > ">> \o JoinPath(Tail(parts))

\* The attribute selectors buildCssFallback collects for the element.
StableAttrs(el) ==
    LET tag == LowerTag(el.tagName) IN
    (IF getTestId(el) # JNull THEN AttrSelector("data-testid", getTestId(el).s)
     ELSE IF Truthy(el.attrs["name"]) THEN AttrSelector("name", el.attrs["name"].s)
     ELSE IF Truthy(el.attrs["aria-label"])
     THEN AttrSelector("aria-label", el.attrs["aria-label"].s)
     ELSE IF Truthy(el.attrs["placeholder"])
     THEN AttrSelector("placeholder", el.attrs["placeholder"].s)
     ELSE <<>>)
    \o (IF tag = "input" /\ Truthy(el.attrs["type"])
        THEN AttrSelector("type", el.attrs["type"].s) ELSE <<>>)

\* buildCssFallback(el); chain is el and its ancestors, el first.
buildCssFallback(chain) ==
    LET el == chain[1]
        tag == LowerTag(el.tagName)
    IN  IF UsableId(el) THEN Str(<<"#">> \o CssEscapeIdent(el.attrs["id"].s))
        ELSE IF StableAttrs(el) # <<>> THEN Str(<<tag>> \o StableAttrs(el))
        ELSE IF PathParts(chain, 1) # <<>> THEN Str(JoinPath(PathParts(chain, 1)))
        ELSE IF tag = "" THEN JNull ELSE Str(<<tag>>)

\* attribute ? safeTrim(attribute, maxLen) : null
TrimmedAttr(el, name, maxLen) ==
    IF Truthy(el.attrs[name]) THEN Str(safeTrim(el.attrs[name], maxLen)) ELSE JNull

\* buildHints(el); chain is el and its ancestors, el first.
buildHints(chain) ==
    LET el == chain[1] IN
    [tag |-> Str(<<LowerTag(el.tagName)>>),
     id |-> TrimmedAttr(el, "id", 120),
     nameAttr |-> TrimmedAttr(el, "name", 120),
     typeAttr |-> TrimmedAttr(el, "type", 60),
     testId |-> getTestId(el),
     ariaLabel |-> TrimmedAttr(el, "aria-label", 120),
     placeholder |-> TrimmedAttr(el, "placeholder", 120),
     labelText |-> getLabelText(el),
     role |-> bestEffortRole(el),
     accessibleName |-> bestEffortAccessibleName(el),
     text |-> OrNull(safeTrim(el.text, 80)),
     css |-> buildCssFallback(chain)]

\* ---- the elements described in the model
AttrNames ==
    {"id", "name", "type", "placeholder", "aria-label", "role", "href",
     "data-testid", "data-test", "data-qa", "data-cy"}
NoAttrs == [a \in AttrNames |-> JNull]
PlainElement(tagName) ==
    [tagName |-> tagName, attrs |-> NoAttrs, labels |-> <<>>,
     wrapping |-> JNull, labelledBy |-> <<>>, text |-> JNull]

\* The ancestors: a div with or without an id (usable, or with a space in
\* it) and with or without a test identifier.
AncestorLevels ==
    {[PlainElement("DIV") EXCEPT !.attrs["id"] = id, !.attrs["data-qa"] = qa] :
        id \in {JNull, Str(<<"i", ".">>), Str(<<"a", " ", "b">>)},
        qa \in {JNull, Str(<<"q">>)}}

\* The elements of the pages with ancestors: a div with or without an id, a
\* test identifier and a name.
ChainElements ==
    {[PlainElement("DIV") EXCEPT
        !.attrs["id"] = id, !.attrs["data-testid"] = tid, !.attrs["name"] = nm] :
        id \in {JNull, Str(<<"1", "i">>), Str(<<"a", " ", "b">>)},
        tid \in {JNull, Str(<<"t", "\"">>)},
        nm \in {JNull, Str(<<"n">>)}}

\* The pages of at most depth levels: an element and its ancestors.
ChainPages(depth) ==
    UNION {{<<el>> \o up : el \in ChainElements, up \in [1..n -> AncestorLevels]} :
             n \in 0..(depth - 1)}

\* The texts of the pages without ancestors: around a run of 0, 59, 79 or
\* 119 letters, whitespace and letters, so that the cut at 60, 80 and 120
\* falls before, on and after a space.
Letters(n) == [i \in 1..n |-> "x"]
RawTexts ==
    {lead \o Letters(n) \o tail :
        lead \in {<<>>, <<"\t", " ">>},
        n \in {0, 59, 79, 119},
        tail \in {<<>>, <<" ", "y">>, <<"y", " ", "y">>, <<" ", "\n", "y", "\t">>}}

\* An element whose attributes and texts all are raw (those of names, the
\* parts of the accessible name present; rest, the other attributes
\* present).
TextElement(tagName, raw, names, rest) ==
    [tagName |-> tagName,
     attrs |-> [a \in AttrNames |->
                  IF a = "aria-label" THEN (IF a \in names THEN Str(raw) ELSE JNull)
                  ELSE IF a \in {"id", "name", "type", "placeholder", "role", "data-test"}
                  THEN (IF rest THEN Str(raw) ELSE JNull)
                  ELSE JNull],
     labels |-> IF "labels" \in names THEN <<Str(raw)>> ELSE <<>>,
     wrapping |-> IF "wrapping" \in names THEN Str(raw) ELSE JNull,
     labelledBy |-> IF "labelledBy" \in names THEN <<JNull, Str(raw)>> ELSE <<>>,
     text |-> IF "text" \in names THEN Str(raw) ELSE JNull]

NameParts == {"aria-label", "labelledBy", "labels", "wrapping", "text"}

TextTags == {"BUTTON", "INPUT", "DIV"}

\* The pages of one element with texts, of the tags given.
TextPages(tags) ==
    {<<TextElement(tagName, raw, names, rest)>> :
        tagName \in tags, raw \in RawTexts,
        names \in SUBSET NameParts, rest \in BOOLEAN}

Pages(depth) == ChainPages(depth) \cup TextPages(TextTags)

NoPage == <<>>
NoHints == [tag |-> JNull]

(***************************************************************************)
(* The content script: the capture engine                                  *)
(***************************************************************************)
TYPE_DEBOUNCE_MS == 700
MAX_VALUE_LEN == 5000

\* Bounds of the model.
TickMs == 350         \* time passes in steps of this many ms
MaxTimers == 3        \* setTimeout calls in a run
MaxSent == 2          \* steps sent in a run

\* The page. Elements are the ones a listener can resolve as a meaningful
\* target; "span" is a child of the button, "window" is the window itself
\* (blur fires on it too).
Elements == {"f1", "pw", "ro", "dis", "btn"}
Nodes == Elements \cup {"span", "window"}
NoEl == "<none>"
\* The nodes that are clicked.
ClickNodes == {"span", "window"}

TagOf(el) ==
    CASE el \in {"f1", "pw", "ro"} -> "input"
      [] el = "dis" -> "textarea"
      [] el = "btn" -> "button"
      [] OTHER -> "span"

\* getAttribute("type") || "text", lower-cased. The password field's
\* attribute is written "Password".
TypeAttrOf(el) == IF el = "pw" THEN "Password" ELSE "text"
ToLower(s) == IF s = "Password" THEN "password" ELSE s

Disabled(el) == el = "dis"
ReadOnly(el) == el = "ro"

\* The values a field holds when an input event fires.
Values == {<<"a">>, <<"b">>}

\* The fields that are never to be captured: password-typed, disabled,
\* read-only.
Protected(el) ==
    \/ TagOf(el) = "input" /\ ToLower(TypeAttrOf(el)) = "password"
    \/ Disabled(el)
    \/ ReadOnly(el)

\* meaningfulTarget(startEl): the closest interactive ancestor, else the
\* element itself; null for a node that is no element.
meaningfulTarget(node) ==
    IF node = "window" THEN NoEl
    ELSE IF node = "span" THEN "btn"
    ELSE node

\* isTextLikeInput(el): a textarea, or an input whose type is typed into.
isTextLikeInput(el) ==
    IF TagOf(el) = "textarea" THEN TRUE
    ELSE IF TagOf(el) # "input" THEN FALSE
    ELSE ToLower(TypeAttrOf(el)) \notin
           {"button", "submit", "reset", "checkbox", "radio", "file", "color",
            "range", "date", "datetime-local", "month", "week", "time", "hidden"}

\* A mutant of shouldSkipTyping: the password test is dropped.
shouldSkipTypingNoPassword(el) ==
    IF el = NoEl THEN TRUE
    ELSE IF Disabled(el) THEN TRUE
    ELSE IF ReadOnly(el) THEN TRUE
    ELSE FALSE

\* shouldSkipTyping(el)
shouldSkipTyping(el) ==
    IF el = NoEl THEN TRUE
    ELSE IF TagOf(el) = "input" /\ ToLower(TypeAttrOf(el)) = "password" THEN TRUE
    ELSE IF Disabled(el) THEN TRUE
    ELSE IF ReadOnly(el) THEN TRUE
    ELSE FALSE

NoPending == [value |-> <<>>, timer |-> 0]
NoBurst == [open |-> FALSE, last |-> <<>>, age |-> 0, from |-> 0]

\* The steps sendStep hands to the service worker; target stands for
\* buildHints(target).
TypeStep(el, value) == [t |-> "type", target |-> el, value |-> value]
ClickStep(el) == [t |-> "click", target |-> el, value |-> <<>>]

\* A mutant of flushType: the pending entry is left in the table.
flushTypeKeepsEntry(el) ==
    IF pendingTypeByEl[el] = NoPending
    THEN UNCHANGED <<pendingTypeByEl, sent, flushed>>
    ELSE /\ Len(sent) < MaxSent
         /\ UNCHANGED pendingTypeByEl
         /\ sent' = Append(sent, TypeStep(meaningfulTarget(el), pendingTypeByEl[el].value))
         /\ flushed' = Append(flushed, pendingTypeByEl[el].timer)

\* flushType(el): nothing when el has no pending entry; else the entry is
\* deleted and a type step with its value is sent. The timer of the entry
\* is not cleared. (History: the flushed edit is noted.)
flushType(el) ==
    IF pendingTypeByEl[el] = NoPending
    THEN UNCHANGED <<pendingTypeByEl, sent, flushed>>
    ELSE /\ Len(sent) < MaxSent
         /\ pendingTypeByEl' = [pendingTypeByEl EXCEPT ![el] = NoPending]
         /\ sent' = Append(sent, TypeStep(meaningfulTarget(el), pendingTypeByEl[el].value))
         /\ flushed' = Append(flushed, pendingTypeByEl[el].timer)

\* scheduleType(el, value): the previous entry's timer is cleared, a new
\* one is set and the entry replaced. (History: the edit continues the
\* element's burst when it comes less than the debounce window after the
\* burst's last edit, and starts a new burst, after the steps sent so far,
\* otherwise.)
scheduleType(el, value) ==
    /\ nextTimer <= MaxTimers
    /\ timers' = {tm \in timers : tm.id # pendingTypeByEl[el].timer}
                   \cup {[id |-> nextTimer, el |-> el,
                          left |-> TYPE_DEBOUNCE_MS]}
    /\ nextTimer' = nextTimer + 1
    /\ pendingTypeByEl' = [pendingTypeByEl EXCEPT
                             ![el] = [value |-> value, timer |-> nextTimer]]
    /\ lastSched' = [lastSched EXCEPT ![el] = nextTimer]
    /\ burst' = [burst EXCEPT ![el] =
                   IF @.open /\ @.age < TYPE_DEBOUNCE_MS
                   THEN [@ EXCEPT !.last = value, !.age = 0]
                   ELSE [open |-> TRUE, last |-> value, age |-> 0,
                         from |-> Len(sent)]]

\* value = String(el.value); longer than MAX_VALUE_LEN, it is cut.
BoundValue(value) ==
    IF Len(value) > MAX_VALUE_LEN THEN SubSeq(value, 1, MAX_VALUE_LEN) ELSE value

\* The input listener, on an event at node with the field holding value.
recordInput(node, value, trusted) ==
    LET el == meaningfulTarget(node) IN
    /\ lastProtected' = IF el # NoEl /\ Protected(el) /\ trusted /\ RECORDING_ENABLED
                        THEN el ELSE lastProtected
    /\ IF /\ RECORDING_ENABLED
          /\ trusted
          /\ el # NoEl
          /\ isTextLikeInput(el)
          /\ ~shouldSkipTyping(el)
       THEN /\ scheduleType(el, BoundValue(value))
            /\ UNCHANGED <<sent, flushed>>
       ELSE UNCHANGED <<pendingTypeByEl, timers, nextTimer, sent, burst,
                        lastSched, flushed>>
    /\ untrusted' = ~trusted
    /\ UNCHANGED <<RECORDING_ENABLED, locVars, bgVars, subVars, hintVars, syncVars, legacyVars>>

\* A mutant of recordChangeOrBlur: the isTrusted test is dropped.
recordChangeOrBlurUntrusted(node, trusted) ==
    LET el == meaningfulTarget(node) IN
    /\ burst' = IF el # NoEl THEN [burst EXCEPT ![el] = NoBurst] ELSE burst
    /\ IF /\ RECORDING_ENABLED
          /\ el # NoEl
          /\ pendingTypeByEl[el] # NoPending
       THEN flushType(el)
       ELSE UNCHANGED <<pendingTypeByEl, sent, flushed>>
    /\ untrusted' = ~trusted
    /\ UNCHANGED <<RECORDING_ENABLED, timers, nextTimer, lastSched,
                   lastProtected, locVars, bgVars, subVars, hintVars, syncVars, legacyVars>>

\* The change and blur listener. (History: a change or blur at an element
\* ends its burst.)
recordChangeOrBlur(node, trusted) ==
    LET el == meaningfulTarget(node) IN
    /\ burst' = IF el # NoEl THEN [burst EXCEPT ![el] = NoBurst] ELSE burst
    /\ IF /\ RECORDING_ENABLED
          /\ trusted
          /\ el # NoEl
          /\ pendingTypeByEl[el] # NoPending
       THEN flushType(el)
       ELSE UNCHANGED <<pendingTypeByEl, sent, flushed>>
    /\ untrusted' = ~trusted
    /\ UNCHANGED <<RECORDING_ENABLED, timers, nextTimer, lastSched,
                   lastProtected, locVars, bgVars, subVars, hintVars, syncVars, legacyVars>>

\* The click listener: a click step is sent at once.
recordClick(node, trusted) ==
    LET el == meaningfulTarget(node) IN
    /\ IF RECORDING_ENABLED /\ trusted /\ el # NoEl
       THEN /\ Len(sent) < MaxSent
            /\ sent' = Append(sent, ClickStep(el))
       ELSE UNCHANGED sent
    /\ untrusted' = ~trusted
    /\ UNCHANGED <<RECORDING_ENABLED, pendingTypeByEl, timers, nextTimer,
                   burst, lastSched, flushed, lastProtected, locVars, bgVars, subVars, hintVars, syncVars, legacyVars>>

\* A timer's callback runs: () => flushType(el, "fill"). A callback runs
\* no earlier than its delay, and callbacks of equal delay run in the order
\* they were set.
timerFires(tm) ==
    /\ tm \in timers
    /\ tm.left = 0
    /\ \A other \in timers : other.id >= tm.id
    /\ timers' = timers \ {tm}
    /\ flushType(tm.el)
    /\ untrusted' = FALSE
    /\ UNCHANGED <<RECORDING_ENABLED, nextTimer, burst, lastSched,
                   lastProtected, locVars, bgVars, subVars, hintVars, syncVars, legacyVars>>

Elapse(ms) == IF ms > TickMs THEN ms - TickMs ELSE 0
Older(ms) == IF ms + TickMs < TYPE_DEBOUNCE_MS THEN ms + TickMs ELSE TYPE_DEBOUNCE_MS

\* TickMs of time pass: every timer has that much less to wait. (History:
\* the time since each burst's last edit grows, up to the debounce window.)
advance ==
    /\ timers # {}
    /\ timers' = {[tm EXCEPT !.left = Elapse(@)] : tm \in timers}
    /\ burst' = [el \in Elements |->
                   IF burst[el].open THEN [burst[el] EXCEPT !.age = Older(@)]
                   ELSE burst[el]]
    /\ untrusted' = FALSE
    /\ UNCHANGED <<RECORDING_ENABLED, pendingTypeByEl, nextTimer, sent,
                   lastSched, flushed, lastProtected, locVars, bgVars, subVars, hintVars, syncVars, legacyVars>>

\* The content script's onMessage listener, on BT_SET_RECORDING.
onSetRecording(enabled) ==
    /\ RECORDING_ENABLED' = enabled
    /\ untrusted' = FALSE
    /\ UNCHANGED <<pendingTypeByEl, timers, nextTimer, sent, burst,
                   lastSched, flushed, lastProtected, locVars, bgVars, subVars, hintVars, syncVars, legacyVars>>

(***************************************************************************)
(* The background service worker                                           *)
(***************************************************************************)
\* Bounds of the model.
MaxHandlers == 2      \* listener invocations in flight at once
MaxStarted == 4       \* listener invocations in a run
MaxLoads == 2         \* loads of the page the content script runs in

Tabs == {1, 2}
HandlerIds == 1..MaxHandlers

NoTape == [k |-> "none"]
NoState == [k |-> "none"]
NoStep == [k |-> "none"]
NoLoc == <<>>

\* The steps a BT_RECORD_STEP message carries: n tells the messages apart,
\* url is the page's URL or absent.
StepUrls == {JNull, Str(<<"u">>), Str(<<"v">>)}
RecStep(n, url) == [k |-> "step", n |-> n, url |-> url]

\* Date.now(): the clock is read off the count of the messages that have
\* arrived, so it never runs backwards.
Now == started

\* The tape ensureTabTape and appendStep create at the time now.
EmptyTape(now) ==
    [k |-> "tape", createdAt |-> now, updatedAt |-> now,
     startUrl |-> JNull, steps |-> <<>>]

Idle == [kind |-> "idle", tab |-> 0, pc |-> "idle", step |-> NoStep, loc |-> NoLoc]

\* A mutant of appendStep: startUrl is taken from every step that has a url.
appendStepOverwrites(tapeByTab, tab, step, now) ==
    LET tape1 == IF tapeByTab[tab] # NoTape THEN tapeByTab[tab] ELSE EmptyTape(now)
        tape2 == [tape1 EXCEPT
                    !.startUrl = IF Truthy(step.url) THEN step.url ELSE @,
                    !.steps = Append(@, step),
                    !.updatedAt = now]
    IN  [tapeByTab EXCEPT ![tab] = tape2]

\* appendStep(tabId, step), between its read of the store and its write:
\* the map it read, with the tab's tape (a new one when the tab has none)
\* given its startUrl when it has none and the step has a url, the step
\* pushed and updatedAt stamped.
appendStep(tapeByTab, tab, step, now) ==
    LET tape1 == IF tapeByTab[tab] # NoTape THEN tapeByTab[tab] ELSE EmptyTape(now)
        tape2 == [tape1 EXCEPT
                    !.startUrl = IF ~Truthy(@) /\ Truthy(step.url) THEN step.url ELSE @,
                    !.steps = Append(@, step),
                    !.updatedAt = now]
    IN  [tapeByTab EXCEPT ![tab] = tape2]

\* ensureTabTape(tabId), between its read and its write.
ensureTabTape(tapeByTab, tab, now) == [tapeByTab EXCEPT ![tab] = EmptyTape(now)]

\* clearTape(tabId), between its read and its write: delete tapeByTab[key].
clearTape(tapeByTab, tab) == [tapeByTab EXCEPT ![tab] = NoTape]

\* setRecording(tabId, enabled), between its read and its write.
setRecording(stateByTab, tab, enabled, now) ==
    [stateByTab EXCEPT
       ![tab] = [k |-> "state", recording |-> enabled, updatedAt |-> now]]

\* tabs.onRemoved, between its read and its write: delete stateByTab[key].
removeState(stateByTab, tab) == [stateByTab EXCEPT ![tab] = NoState]

\* state?.recording
IsRecording(stateByTab, tab) ==
    stateByTab[tab] # NoState /\ stateByTab[tab].recording

\* The steps of a stored tape, by the number of the message that
\* carried each.
StepIds(tp) ==
    IF tp = NoTape THEN {} ELSE {tp.steps[i].n : i \in 1..Len(tp.steps)}

\* The tab whose content script is followed.
SyncTab == 1

\* What travels to the content script goes to the script of the page as
\* loaded when it was sent (to): a message to the tab, or the response on
\* the port of a hello.
\* { type: "BT_SET_RECORDING", enabled }
SetRecordingMsg(to, enabled) ==
    [type |-> "BT_SET_RECORDING", to |-> to, enabled |-> enabled]
\* The response to BT_CONTENT_HELLO: { ok, recording }
HelloResponse(to, ok, recording) ==
    [type |-> "BT_CONTENT_HELLO", to |-> to, ok |-> ok, recording |-> recording]

\* The BT_CONTENT_HELLO a listener invocation works on: its sender is the
\* script of the load given.
HelloOf(load) == [k |-> "hello", from |-> load]

Busy(h) == handlers[h] # Idle
LowestIdle(h) == ~Busy(h) /\ \A g \in HandlerIds : g < h => Busy(g)

\* What follows ensureTabTape: appendStep in the BT_RECORD_STEP handler,
\* setRecording in the BT_POPUP_START handler.
AfterEnsure(kind) == IF kind = "record" THEN "app_get" ELSE "sr_get"

Step(h, pc) == handlers[h].pc = pc
Goto(h, pc, map) == handlers' = [handlers EXCEPT ![h].pc = pc, ![h].loc = map]
Done(h) == handlers' = [handlers EXCEPT ![h] = Idle]

\* The messages of the popup: their handlers ask for the active tab first.
PopupKinds == {"start", "stop", "clear"}

\* No tab: of a popup handler that awaits the active tab, and the answer of
\* getActiveTab() when no tab is active.
NoTab == 0

\* Where a popup handler goes on when it has its tab.
AfterQuery(kind) ==
    CASE kind = "start" -> "ens_get"
      [] kind = "stop" -> "sr_get"
      [] OTHER -> "clr_get"

\* A message arrives (or a tab is closed) and its listener starts, up to
\* its first await: getActiveTab() in the handlers of the popup's messages
\* (tab is NoTab then), getStateByTab() in the others.
begin(h, kind, tab, url) ==
    /\ LowestIdle(h)
    /\ started < MaxStarted
    /\ started' = started + 1
    /\ (kind \in PopupKinds) <=> (tab = NoTab)
    /\ handlers' = [handlers EXCEPT ![h] =
          [kind |-> kind, tab |-> tab,
           pc |-> CASE kind = "record" -> "rs_state"
                    [] kind \in PopupKinds -> "query"
                    [] OTHER -> "rm_get",
           step |-> IF kind = "record" THEN RecStep(started + 1, url) ELSE NoStep,
           loc |-> NoLoc]]
    /\ UNCHANGED <<tapeStore, stateStore, discarded, locVars, capVars, subVars, hintVars, syncVars, legacyVars>>

\* BT_POPUP_START, BT_POPUP_STOP, BT_POPUP_CLEAR: await getActiveTab(), then
\* the test for a tab: with none the response is { ok: false } and the
\* handler ends; else it goes on for the tab that is active now.
activeTabResolved(h, tab) ==
    /\ Step(h, "query")
    /\ IF tab = NoTab
       THEN Done(h)
       ELSE handlers' = [handlers EXCEPT ![h].tab = tab,
                                         ![h].pc = AfterQuery(handlers[h].kind)]
    /\ UNCHANGED <<tapeStore, stateStore, started, discarded,
                   locVars, capVars, subVars, hintVars, syncVars, legacyVars>>

\* BT_RECORD_STEP: await getStateByTab(), then the recording test.
recordGetState(h) ==
    /\ Step(h, "rs_state")
    /\ IF IsRecording(stateStore, handlers[h].tab)
       THEN Goto(h, "ens_get", NoLoc)
       ELSE Done(h)
    /\ UNCHANGED <<tapeStore, stateStore, started, discarded, locVars, capVars, subVars, hintVars, syncVars, legacyVars>>

\* A mutant of ensureGet: the test for a tape is dropped, a new tape is
\* written every time.
ensureGetAlways(h) ==
    /\ Step(h, "ens_get")
    /\ Goto(h, "ens_set", ensureTabTape(tapeStore, handlers[h].tab, Now))
    /\ UNCHANGED <<tapeStore, stateStore, started, discarded, locVars, capVars, subVars, hintVars, syncVars, legacyVars>>

\* A mutant of ensureGet: no tape is created for a session without one.
ensureGetNoCreate(h) ==
    /\ Step(h, "ens_get")
    /\ Goto(h, AfterEnsure(handlers[h].kind), NoLoc)
    /\ UNCHANGED <<tapeStore, stateStore, started, discarded, locVars, capVars, subVars, hintVars, syncVars, legacyVars>>

\* ensureTabTape: await getTapeByTab(), then the test for a tape.
ensureGet(h) ==
    /\ Step(h, "ens_get")
    /\ IF tapeStore[handlers[h].tab] = NoTape
       THEN Goto(h, "ens_set", ensureTabTape(tapeStore, handlers[h].tab, Now))
       ELSE Goto(h, AfterEnsure(handlers[h].kind), NoLoc)
    /\ UNCHANGED <<tapeStore, stateStore, started, discarded, locVars, capVars, subVars, hintVars, syncVars, legacyVars>>

\* ensureTabTape: await setInStorage(STORAGE_KEY, tapeByTab).
ensureSet(h) ==
    /\ Step(h, "ens_set")
    /\ tapeStore' = handlers[h].loc
    /\ Goto(h, AfterEnsure(handlers[h].kind), NoLoc)
    /\ UNCHANGED <<stateStore, started, discarded, locVars, capVars, subVars, hintVars, syncVars, legacyVars>>

\* appendStep: await getTapeByTab(), then the tape is built.
appendGet(h) ==
    /\ Step(h, "app_get")
    /\ Goto(h, "app_set",
            appendStep(tapeStore, handlers[h].tab, handlers[h].step, Now))
    /\ UNCHANGED <<tapeStore, stateStore, started, discarded, locVars, capVars, subVars, hintVars, syncVars, legacyVars>>

\* appendStep: await setInStorage(STORAGE_KEY, tapeByTab); the handler ends.
appendSet(h) ==
    /\ Step(h, "app_set")
    /\ tapeStore' = handlers[h].loc
    /\ Done(h)
    /\ UNCHANGED <<stateStore, started, discarded, locVars, capVars, subVars, hintVars, syncVars, legacyVars>>

\* setRecording: await getStateByTab(), then the tab's entry is replaced.
setRecordingGet(h) ==
    /\ Step(h, "sr_get")
    /\ Goto(h, "sr_set",
            setRecording(stateStore, handlers[h].tab, handlers[h].kind = "start",
                         Now))
    /\ UNCHANGED <<tapeStore, stateStore, started, discarded, locVars, capVars, subVars, hintVars, syncVars, legacyVars>>

\* setRecording: await setInStorage(STATE_KEY, stateByTab), then
\* chrome.tabs.sendMessage(tabId, ...) is called: the message leaves for the
\* tab's content script, if the tab has one.
setRecordingSet(h) ==
    /\ Step(h, "sr_set")
    /\ stateStore' = handlers[h].loc
    /\ Goto(h, "sr_send", NoLoc)
    /\ channel' = IF csLoaded /\ handlers[h].tab = SyncTab
                  THEN Append(channel,
                              SetRecordingMsg(generation, handlers[h].kind = "start"))
                  ELSE channel
    /\ UNCHANGED <<tapeStore, started, discarded, csLoaded, generation, helloInFlight,
                   locVars, capVars, subVars, hintVars, legacyVars>>

\* setRecording: the await of chrome.tabs.sendMessage(...) ends (with the
\* script's answer, or failing for a tab without one), then the handler's
\* sendResponse({ ok: true }): Start or Stop has completed.
setRecordingNotify(h) ==
    /\ Step(h, "sr_send")
    /\ Done(h)
    /\ UNCHANGED <<tapeStore, stateStore, started, discarded, locVars, capVars, subVars, hintVars, syncVars, legacyVars>>

\* clearTape: await getTapeByTab(), then the delete.
clearGet(h) ==
    /\ Step(h, "clr_get")
    /\ Goto(h, "clr_set", clearTape(tapeStore, handlers[h].tab))
    /\ UNCHANGED <<tapeStore, stateStore, started, discarded, locVars, capVars, subVars, hintVars, syncVars, legacyVars>>

\* clearTape: await setInStorage(STORAGE_KEY, tapeByTab), then sendResponse:
\* Clear has completed. (History: the steps of the tape the write removes
\* from the store are noted.)
clearSet(h) ==
    /\ Step(h, "clr_set")
    /\ tapeStore' = handlers[h].loc
    /\ Done(h)
    /\ discarded' = [discarded EXCEPT ![handlers[h].tab] =
                        @ \cup StepIds(tapeStore[handlers[h].tab])]
    /\ UNCHANGED <<stateStore, started, locVars, capVars, subVars, hintVars, syncVars, legacyVars>>

\* tabs.onRemoved: await getStateByTab(), then the delete.
removedGet(h) ==
    /\ Step(h, "rm_get")
    /\ Goto(h, "rm_set", removeState(stateStore, handlers[h].tab))
    /\ UNCHANGED <<tapeStore, stateStore, started, discarded, locVars, capVars, subVars, hintVars, syncVars, legacyVars>>

\* tabs.onRemoved: await setInStorage(STATE_KEY, stateByTab).
removedSet(h) ==
    /\ Step(h, "rm_set")
    /\ stateStore' = handlers[h].loc
    /\ Done(h)
    /\ UNCHANGED <<tapeStore, started, discarded, locVars, capVars, subVars, hintVars, syncVars, legacyVars>>

Kinds == {"record", "start", "stop", "clear", "removed"}

\* The page of SyncTab is loaded (anew): its content script starts, with
\* RECORDING_ENABLED false, nothing pending and no timer, and sends
\* BT_CONTENT_HELLO. From now on the tab
\* has a script that takes BT_SET_RECORDING.
contentLoads ==
    /\ generation < MaxLoads
    /\ generation' = generation + 1
    /\ csLoaded' = TRUE
    /\ RECORDING_ENABLED' = FALSE
    /\ pendingTypeByEl' = [el \in Elements |-> NoPending]
    /\ timers' = {}
    /\ helloInFlight' = Append(helloInFlight, generation + 1)
    /\ UNCHANGED <<nextTimer, sent, burst, lastSched,
                   flushed, lastProtected, untrusted, channel,
                   locVars, bgVars, subVars, hintVars, legacyVars>>

\* A BT_CONTENT_HELLO reaches the service worker: its listener starts, up
\* to its await getStateByTab().
helloArrives(h) ==
    /\ helloInFlight # <<>>
    /\ helloInFlight' = Tail(helloInFlight)
    /\ LowestIdle(h)
    /\ started < MaxStarted
    /\ started' = started + 1
    /\ handlers' = [handlers EXCEPT ![h] =
          [kind |-> "hello", tab |-> SyncTab, pc |-> "hello_get",
           step |-> HelloOf(Head(helloInFlight)), loc |-> NoLoc]]
    /\ UNCHANGED <<tapeStore, stateStore, discarded, channel, csLoaded, generation,
                   locVars, capVars, subVars, hintVars, legacyVars>>

\* BT_CONTENT_HELLO: await getStateByTab(), then
\* sendResponse({ ok: true, recording: !!state.recording }).
helloGet(h) ==
    /\ Step(h, "hello_get")
    /\ channel' = Append(channel,
                     HelloResponse(handlers[h].step.from, TRUE,
                                   IsRecording(stateStore, handlers[h].tab)))
    /\ Done(h)
    /\ UNCHANGED <<tapeStore, stateStore, started, discarded, csLoaded, generation,
                   helloInFlight, locVars, capVars, subVars, hintVars, legacyVars>>

\* What arrives next at the page of SyncTab: the script of now takes it,
\* in its listener for BT_SET_RECORDING or in the callback of its hello;
\* what was sent to the script of an earlier load is lost with it.
contentReceives ==
    /\ channel # <<>>
    /\ channel' = Tail(channel)
    /\ LET msg == Head(channel) IN
       RECORDING_ENABLED' =
          IF msg.to # generation THEN RECORDING_ENABLED
          ELSE IF msg.type = "BT_SET_RECORDING" THEN msg.enabled
          ELSE IF msg.ok THEN msg.recording
          ELSE RECORDING_ENABLED
    /\ UNCHANGED <<pendingTypeByEl, timers, nextTimer, sent, burst, lastSched,
                   flushed, lastProtected, untrusted, csLoaded, generation,
                   helloInFlight, locVars, bgVars, subVars, hintVars, legacyVars>>

(***************************************************************************)
(* The legacy content script                                               *)
(***************************************************************************)
\* Bound of the model.
MaxActions == 2       \* actions recorded in one recording

\* The elements of the page: tag, the selector generateSelector gives, and
\* whether isInteractiveElement holds.
LegacyNodes ==
    {[tagName |-> "INPUT", selector |-> "#q", interactive |-> TRUE],
     [tagName |-> "TEXTAREA", selector |-> "#note", interactive |-> TRUE],
     [tagName |-> "BUTTON", selector |-> "#go", interactive |-> TRUE],
     [tagName |-> "SELECT", selector |-> "#lang", interactive |-> TRUE],
     [tagName |-> "DIV", selector |-> ".box", interactive |-> FALSE]}
LegacyTexts == {"a", "ab"}
LegacyOptions == {"en"}

\* window.location.href; initialUrl before any recording
PageUrl == "https://x.test/"
NoUrl == "null"

\* Nothing under recordingState in storage.
NoPersisted == [isRecording |-> FALSE, recordedActions |-> <<>>, initialUrl |-> NoUrl]

\* The actions recorded (their timestamps are left out).
\* No get on its way to storage.
NoGet == [k |-> "none"]

ClickAction(selector) == [type |-> "click", selector |-> selector, text |-> ""]
TypeAction(selector, text) == [type |-> "type", selector |-> selector, text |-> text]

\* saveRecordingState(): the state as chrome.storage.local.set stores it,
\* a copy of what the script holds at the call.
saveRecordingState(recording, actions, url) ==
    [isRecording |-> recording, recordedActions |-> actions, initialUrl |-> url]

startRecording ==
    /\ isRecording' = TRUE
    /\ recordedActions' = <<>>
    /\ initialUrl' = PageUrl
    /\ persisted' = saveRecordingState(TRUE, <<>>, PageUrl)
    /\ UNCHANGED <<pendingGet, locVars, capVars, bgVars, subVars, hintVars, syncVars>>

\* stopRecording(): clearRecordingState() removes the stored state.
stopRecording ==
    /\ isRecording' = FALSE
    /\ persisted' = NoPersisted
    /\ UNCHANGED <<recordedActions, initialUrl, pendingGet,
                   locVars, capVars, bgVars, subVars, hintVars, syncVars>>

handleClick(node) ==
    /\ isRecording
    /\ Len(recordedActions) < MaxActions
    /\ IF node.interactive
       THEN /\ recordedActions' = Append(recordedActions, ClickAction(node.selector))
            /\ persisted' = saveRecordingState(isRecording, recordedActions', initialUrl)
       ELSE UNCHANGED <<recordedActions, persisted>>
    /\ UNCHANGED <<isRecording, initialUrl, pendingGet,
                   locVars, capVars, bgVars, subVars, hintVars, syncVars>>

\* handleInput(event): further input in the field of the last type action
\* updates that action in place; other input adds a type action and saves.
handleInput(node, text) ==
    /\ isRecording
    /\ Len(recordedActions) < MaxActions
    /\ IF node.tagName \in {"INPUT", "TEXTAREA"}
       THEN LET n == Len(recordedActions) IN
            IF n > 0 /\ recordedActions[n].type = "type"
                     /\ recordedActions[n].selector = node.selector
            THEN /\ recordedActions' = [recordedActions EXCEPT ![n].text = text]
                 /\ UNCHANGED persisted
            ELSE /\ recordedActions' =
                       Append(recordedActions, TypeAction(node.selector, text))
                 /\ persisted' =
                       saveRecordingState(isRecording, recordedActions', initialUrl)
       ELSE UNCHANGED <<recordedActions, persisted>>
    /\ UNCHANGED <<isRecording, initialUrl, pendingGet,
                   locVars, capVars, bgVars, subVars, hintVars, syncVars>>

\* handleChange(event): the option chosen in a select, as a click.
handleChange(node, option) ==
    /\ isRecording
    /\ Len(recordedActions) < MaxActions
    /\ IF node.tagName = "SELECT"
       THEN /\ recordedActions' =
                  Append(recordedActions,
                         ClickAction(node.selector \o " > option[value=\"" \o option
                                        \o "\"]"))
            /\ persisted' = saveRecordingState(isRecording, recordedActions', initialUrl)
       ELSE UNCHANGED <<recordedActions, persisted>>
    /\ UNCHANGED <<isRecording, initialUrl, pendingGet,
                   locVars, capVars, bgVars, subVars, hintVars, syncVars>>

\* The page is loaded anew: the script starts over, with nothing recorded,
\* and asks storage for recordingState; storage serves its requests in the
\* order they were issued, so the answer is what it holds now. (A get of
\* the page before is never answered: that script is gone.)
load ==
    /\ isRecording' = FALSE
    /\ recordedActions' = <<>>
    /\ initialUrl' = NoUrl
    /\ pendingGet' = persisted
    /\ UNCHANGED <<persisted, locVars, capVars, bgVars, subVars, hintVars, syncVars>>

\* The callback of the get on load: a stored state that says the recording
\* was on is restored, over what the script holds by then.
restore ==
    /\ pendingGet # NoGet
    /\ pendingGet' = NoGet
    /\ IF pendingGet.isRecording
       THEN /\ isRecording' = TRUE
            /\ recordedActions' = pendingGet.recordedActions
            /\ initialUrl' = pendingGet.initialUrl
       ELSE UNCHANGED <<isRecording, recordedActions, initialUrl>>
    /\ UNCHANGED <<persisted, locVars, capVars, bgVars, subVars, hintVars, syncVars>>

(***************************************************************************)
(* Parameter extraction and substitution                                   *)
(***************************************************************************)
\* The code of this part is not among the sources; it is modelled from the
\* specification: markers are {{name}}, the names referenced are collected
\* in the order of their first occurrence, substitution fails when a
\* referenced name has no value and otherwise replaces every occurrence of
\* each marker by its value, as literal text.

\* Bound of the model.
MaxPieces == 3        \* pieces a script text is put together from

NameChars == {"a", "b", "c"}
Marker(name) == <<"{", "{">> \o name \o <<"}", "}">>

RECURSIVE NameEnd(_, _)
\* The index after the run of name characters that starts at i.
NameEnd(text, i) ==
    IF i <= Len(text) /\ text[i] \in NameChars THEN NameEnd(text, i + 1) ELSE i

\* The index of the last character of the marker that starts at i, 0 when
\* none starts there.
MarkerEnd(text, i) ==
    LET e == NameEnd(text, i + 2) IN
    IF /\ i + 1 <= Len(text)
       /\ text[i] = "{" /\ text[i + 1] = "{"
       /\ e > i + 2
       /\ e + 1 <= Len(text)
       /\ text[e] = "}" /\ text[e + 1] = "}"
    THEN e + 1 ELSE 0

RECURSIVE ScanNames(_, _)
\* The names of the markers of a text from index i on, left to right.
ScanNames(text, i) ==
    IF i > Len(text) THEN <<>>
    ELSE IF MarkerEnd(text, i) # 0
    THEN <<SubSeq(text, i + 2, MarkerEnd(text, i) - 2)>>
            \o ScanNames(text, MarkerEnd(text, i) + 1)
    ELSE ScanNames(text, i + 1)

RECURSIVE Distinct(_)
\* A sequence without its repetitions, first occurrences kept in order.
Distinct(names) ==
    IF names = <<>> THEN <<>>
    ELSE LET front == Distinct(SubSeq(names, 1, Len(names) - 1))
             last == names[Len(names)]
         IN  IF \E i \in 1..Len(front) : front[i] = last THEN front
             ELSE Append(front, last)

\* The ordered set of the distinct names a script text references.
extractPlaceholders(text) == Distinct(ScanNames(text, 1))

RECURSIVE ReplaceAll(_, _, _)
\* Literal replacement of every occurrence of pat in text by val, left to
\* right; what was put in is not looked at again.
ReplaceAll(text, pat, val) ==
    IF Len(text) < Len(pat) THEN text
    ELSE IF SubSeq(text, 1, Len(pat)) = pat
    THEN val \o ReplaceAll(SubSeq(text, Len(pat) + 1, Len(text)), pat, val)
    ELSE <<Head(text)>> \o ReplaceAll(Tail(text), pat, val)

RECURSIVE ReplaceFirst(_, _, _)
\* Replacement of the first occurrence alone, for the mutant below.
ReplaceFirst(text, pat, val) ==
    IF Len(text) < Len(pat) THEN text
    ELSE IF SubSeq(text, 1, Len(pat)) = pat
    THEN val \o SubSeq(text, Len(pat) + 1, Len(text))
    ELSE <<Head(text)>> \o ReplaceFirst(Tail(text), pat, val)

RECURSIVE SubstituteFirsts(_, _, _)
SubstituteFirsts(text, names, values) ==
    IF names = <<>> THEN text
    ELSE SubstituteFirsts(ReplaceFirst(text, Marker(Head(names)), values[Head(names)]),
                          Tail(names), values)

RECURSIVE SubstituteNames(_, _, _)
\* The markers of the names, one name after the other, replaced by the
\* names' values.
SubstituteNames(text, names, values) ==
    IF names = <<>> THEN text
    ELSE SubstituteNames(ReplaceAll(text, Marker(Head(names)), values[Head(names)]),
                         Tail(names), values)

\* The referenced names that have no value.
MissingNames(text, values) ==
    {n \in {extractPlaceholders(text)[i] : i \in 1..Len(extractPlaceholders(text))} :
        n \notin DOMAIN values}

\* A mutant of substituteText: of each marker only the first occurrence is
\* replaced.
substituteTextFirstOnly(text, values) ==
    SubstituteFirsts(text, extractPlaceholders(text), values)

\* The text substitution returns when every referenced name has a value.
substituteText(text, values) ==
    SubstituteNames(text, extractPlaceholders(text), values)

\* The script texts of the model: up to MaxPieces pieces, each a piece of
\* literal text, a marker, a lone brace, or a pair of braces.
Pieces ==
    {<<";">>, Marker(<<"a">>), Marker(<<"b">>), <<"{">>, <<"}">>,
     <<"{", "{">>, <<"}", "}">>}

RECURSIVE Concat(_)
Concat(pieces) == IF pieces = <<>> THEN <<>> ELSE Head(pieces) \o Concat(Tail(pieces))

ScriptTexts == {Concat(ps) : ps \in UNION {[1..n -> Pieces] : n \in 0..MaxPieces}}

\* The value maps of the model: a value for some of the names a and b; a
\* value may be empty, may be made of the characters of names, may end
\* like a marker, and may itself look like a marker.
ParamNames == {<<"a">>, <<"b">>}
ParamValues ==
    {<<"v">>, <<>>, <<"c">>, <<"c", "}", "}">>, Marker(<<"b">>), Marker(<<"c">>)}
ValueMaps == UNION {[names -> ParamValues] : names \in SUBSET ParamNames}

NotRunText == <<"<none>">>

(***************************************************************************)
(* The specifications                                                      *)
(***************************************************************************)
CompileIdle == tape = NoInput /\ sourcePath = <<>> /\ script = NotCompiled

LocIdle == target = NoTarget /\ loc = NotRun /\ CompileIdle

\* The content script as loaded: let RECORDING_ENABLED = false, the table
\* empty, no timer set.
CapInit ==
    /\ RECORDING_ENABLED = FALSE
    /\ pendingTypeByEl = [el \in Elements |-> NoPending]
    /\ timers = {}
    /\ nextTimer = 1
    /\ sent = <<>>
    /\ burst = [el \in Elements |-> NoBurst]
    /\ lastSched = [el \in Elements |-> 0]
    /\ flushed = <<>>
    /\ lastProtected = NoEl
    /\ untrusted = FALSE

\* No script handed to substitution.
SubIdle ==
    /\ subScript = <<>> /\ subValues = <<>> /\ subPhase = "idle"
    /\ subResult = NotRunText /\ executed = NotRunText

\* No element described.
HintIdle == element = NoPage /\ hints = NoHints

\* No content script loaded, nothing on its way to one.
SyncIdle ==
    /\ channel = <<>> /\ csLoaded = FALSE
    /\ generation = 0 /\ helloInFlight = <<>>

\* The legacy content script not loaded.
LegacyIdle ==
    /\ isRecording = FALSE /\ recordedActions = <<>>
    /\ initialUrl = NoUrl /\ persisted = NoPersisted
    /\ pendingGet = NoGet

\* The service worker with an empty chrome.storage.local.
BgInit ==
    /\ tapeStore = [t \in Tabs |-> NoTape]
    /\ stateStore = [t \in Tabs |-> NoState]
    /\ handlers = [h \in HandlerIds |-> Idle]
    /\ started = 0
    /\ discarded = [t \in Tabs |-> {}]
    /\ SubIdle
    /\ HintIdle /\ SyncIdle /\ LegacyIdle

\* ---- SpecLoc: pickLocatorExpr on every descriptor of Targets
InitLoc == target \in Targets /\ loc = NotRun /\ CompileIdle /\ CapInit /\ BgInit

pickLocator ==
    /\ loc = NotRun
    /\ loc' = pickLocatorExpr(target)
    /\ UNCHANGED <<target, tape, sourcePath, script, capVars, bgVars, subVars, hintVars, syncVars, legacyVars>>

NextLoc == pickLocator

SpecLoc == InitLoc /\ [][NextLoc]_vars

\* ---- SpecCompile: main() on every tape of Tapes: the tape is parsed,
\* buildScript is called once and the script written
InitCompile ==
    /\ tape \in Tapes
    /\ sourcePath \in SourcePaths
    /\ script = NotCompiled
    /\ target = NoTarget /\ loc = NotRun
    /\ CapInit /\ BgInit

compile ==
    /\ script = NotCompiled
    /\ script' = buildScript(tape, sourcePath)
    /\ tape' = buildScriptLeaves(tape)
    /\ UNCHANGED <<sourcePath, target, loc, capVars, bgVars, subVars, hintVars, syncVars, legacyVars>>

NextCompile == compile

SpecCompile == InitCompile /\ [][NextCompile]_vars

\* ---- SpecCap: the capture engine
InitCap == LocIdle /\ CapInit /\ BgInit

NextCap ==
    \/ \E node \in Nodes, value \in Values, trusted \in BOOLEAN :
          recordInput(node, value, trusted)
    \/ \E node \in Nodes, trusted \in BOOLEAN : recordChangeOrBlur(node, trusted)
    \/ \E node \in ClickNodes, trusted \in BOOLEAN : recordClick(node, trusted)
    \/ \E tm \in timers : timerFires(tm)
    \/ advance
    \/ \E enabled \in BOOLEAN : onSetRecording(enabled)

SpecCap == InitCap /\ [][NextCap]_vars

\* ---- SpecBg: the service worker, its handlers interleaved at each await
InitBg == LocIdle /\ CapInit /\ BgInit

beginAny(h) ==
    \E kind \in Kinds, tab \in Tabs \cup {NoTab} :
       \E url \in (IF kind = "record" THEN StepUrls ELSE {JNull}) :
          begin(h, kind, tab, url)

HandlerStep(h) ==
    \/ \E tab \in Tabs \cup {NoTab} : activeTabResolved(h, tab)
    \/ recordGetState(h)
    \/ ensureGet(h)
    \/ ensureSet(h)
    \/ appendGet(h)
    \/ appendSet(h)
    \/ setRecordingGet(h)
    \/ setRecordingSet(h)
    \/ setRecordingNotify(h)
    \/ clearGet(h)
    \/ clearSet(h)
    \/ removedGet(h)
    \/ removedSet(h)

NextBg == \E h \in HandlerIds : beginAny(h) \/ HandlerStep(h)

SpecBg == InitBg /\ [][NextBg]_vars

\* ---- SpecSeq: the service worker, each handler run to its end before the
\* next message arrives
beginAlone(h) == (\A g \in HandlerIds : ~Busy(g)) /\ beginAny(h)

NextSeq == \E h \in HandlerIds : beginAlone(h) \/ HandlerStep(h)

SpecSeq == InitBg /\ [][NextSeq]_vars

\* ---- SpecSync: Start and Stop for both tabs, and the content script of
\* SyncTab: its hello, and what the service worker sends it
InitSync == InitBg

beginStartStop(h) ==
    \E kind \in {"start", "stop"} : begin(h, kind, NoTab, JNull)

NextSync ==
    \/ contentLoads
    \/ \E h \in HandlerIds :
          \/ helloArrives(h)
          \/ helloGet(h)
          \/ beginStartStop(h)
          \/ \E tab \in Tabs \cup {NoTab} : activeTabResolved(h, tab)
          \/ ensureGet(h)
          \/ ensureSet(h)
          \/ setRecordingGet(h)
          \/ setRecordingSet(h)
          \/ setRecordingNotify(h)
    \/ contentReceives

SpecSync == InitSync /\ [][NextSync]_vars

\* ---- SpecLegacy: the legacy content script in one page
InitLegacy == InitBg

NextLegacy ==
    \/ startRecording
    \/ stopRecording
    \/ \E node \in LegacyNodes : handleClick(node)
    \/ \E node \in LegacyNodes, text \in LegacyTexts : handleInput(node, text)
    \/ \E node \in LegacyNodes, option \in LegacyOptions : handleChange(node, option)
    \/ load
    \/ restore

SpecLegacy == InitLegacy /\ [][NextLegacy]_vars

\* ---- SpecSub: a replay of a stored script with a map of values:
\* substitution first, the automation engine after it
InitSub ==
    /\ LocIdle /\ CapInit
    /\ tapeStore = [t \in Tabs |-> NoTape]
    /\ stateStore = [t \in Tabs |-> NoState]
    /\ handlers = [h \in HandlerIds |-> Idle]
    /\ started = 0
    /\ discarded = [t \in Tabs |-> {}]
    /\ subScript \in ScriptTexts
    /\ subValues \in ValueMaps
    /\ subPhase = "ready"
    /\ subResult = NotRunText /\ executed = NotRunText
    /\ HintIdle /\ SyncIdle /\ LegacyIdle

\* A mutant of substitute: a name without a value is passed over, its
\* marker left in the text.
substitutePartial ==
    /\ subPhase = "ready"
    /\ subPhase' = "substituted"
    /\ subResult' =
          SubstituteNames(subScript,
             SelectSeq(extractPlaceholders(subScript),
                       LAMBDA n : n \in DOMAIN subValues),
             subValues)
    /\ UNCHANGED <<subScript, subValues, executed, locVars, capVars, bgVars, hintVars, syncVars, legacyVars>>

\* Substitution: it fails when a referenced name has no value, before
\* anything is replaced; otherwise it returns the substituted text.
substitute ==
    /\ subPhase = "ready"
    /\ IF MissingNames(subScript, subValues) # {}
       THEN subPhase' = "failed" /\ UNCHANGED subResult
       ELSE /\ subPhase' = "substituted"
            /\ subResult' = substituteText(subScript, subValues)
    /\ UNCHANGED <<subScript, subValues, executed, locVars, capVars, bgVars, hintVars, syncVars, legacyVars>>

\* The substituted text is handed to the automation engine.
replay ==
    /\ subPhase = "substituted"
    /\ subPhase' = "replayed"
    /\ executed' = subResult
    /\ UNCHANGED <<subScript, subValues, subResult, locVars, capVars, bgVars, hintVars, syncVars, legacyVars>>

NextSub == substitute \/ replay

SpecSub == InitSub /\ [][NextSub]_vars
\* ---- SpecHints: buildHints on every element of Pages
InitHints ==
    /\ LocIdle /\ CapInit
    /\ tapeStore = [t \in Tabs |-> NoTape]
    /\ stateStore = [t \in Tabs |-> NoState]
    /\ handlers = [h \in HandlerIds |-> Idle]
    /\ started = 0
    /\ discarded = [t \in Tabs |-> {}]
    /\ SubIdle
    /\ element \in Pages(MaxDepth)
    /\ hints = NoHints
    /\ SyncIdle /\ LegacyIdle

describe ==
    /\ hints = NoHints
    /\ hints' = buildHints(element)
    /\ UNCHANGED <<element, locVars, capVars, bgVars, subVars, syncVars, legacyVars>>

NextHints == describe

SpecHints == InitHints /\ [][NextHints]_vars

(***************************************************************************)
(* Properties                                                              *)
(***************************************************************************)
StepsOf(tp) == IF tp = NoTape THEN <<>> ELSE tp.steps

RECURSIVE FirstUrl(_)
\* The url of the first step of a sequence that carries one, JNull when none
\* does.
FirstUrl(steps) ==
    IF steps = <<>> THEN JNull
    ELSE IF Truthy(Head(steps).url) THEN Head(steps).url
    ELSE FirstUrl(Tail(steps))

\* C1: in every tape, startUrl is the url of the first step appended with a
\* url (null while no such step was appended), and once it is not null no
\* step of the service worker changes it while the tape lives.
C1_StartUrlSetOnce ==
    /\ [](\A t \in Tabs : tapeStore[t] # NoTape =>
             tapeStore[t].startUrl = FirstUrl(tapeStore[t].steps))
    /\ [][\A t \in Tabs :
             (/\ tapeStore[t] # NoTape
              /\ tapeStore'[t] # NoTape
              /\ Truthy(tapeStore[t].startUrl))
             => tapeStore'[t].startUrl = tapeStore[t].startUrl]_vars

\* C1, its case: a tape whose second step carries a url other than the
\* startUrl the first step gave it.
C1_Witness ==
    \E t \in Tabs :
       /\ tapeStore[t] # NoTape
       /\ Len(tapeStore[t].steps) >= 2
       /\ Truthy(tapeStore[t].steps[1].url)
       /\ Truthy(tapeStore[t].steps[2].url)
       /\ tapeStore[t].steps[2].url # tapeStore[t].steps[1].url

\* Stop has completed for the tab and no Start has begun since: the stored
\* flag is false and no Start or Stop handler for the tab is in flight.
Stopped(t) ==
    /\ stateStore[t] # NoState
    /\ ~stateStore[t].recording
    /\ \A h \in HandlerIds :
          handlers[h].kind \in {"start", "stop"} => handlers[h].tab \notin {t, NoTab}

\* C2: once Stop has completed for a tab, its tape gains no step until the
\* next Start: a step is appended only while the recording flag is true.
C2_NoStepAfterStop ==
    [][\A t \in Tabs :
          Stopped(t) =>
             Len(StepsOf(tapeStore'[t])) <= Len(StepsOf(tapeStore[t]))]_vars

\* The type steps sent for an element after the first n steps sent.
RECURSIVE TypeStepsFrom(_, _)
TypeStepsFrom(el, n) ==
    IF n >= Len(sent) THEN <<>>
    ELSE (IF sent[n + 1].t = "type" /\ sent[n + 1].target = el
          THEN <<sent[n + 1]>> ELSE <<>>) \o TypeStepsFrom(el, n + 1)

\* C3: a burst of edits to one field, each less than the debounce window
\* after the one before and with no blur or change in between, gives
\* exactly one type step, with the value of the last edit: none while the
\* last edit is pending, that one once it is flushed.
C3_OneStepPerBurst ==
    \A el \in Elements :
       burst[el].open =>
          IF pendingTypeByEl[el] # NoPending
          THEN /\ TypeStepsFrom(el, burst[el].from) = <<>>
               /\ pendingTypeByEl[el].value = burst[el].last
          ELSE TypeStepsFrom(el, burst[el].from) = <<TypeStep(el, burst[el].last)>>

\* C4: a flush callback is cancelled when a later edit to its element
\* arrives before it runs: every callback still to run was set by the last
\* edit to its element.
C4_SupersededTimerCancelled ==
    \A tm \in timers : tm.id = lastSched[tm.el]

NoDuplicates(seq) ==
    \A i, j \in 1..Len(seq) : i # j => seq[i] # seq[j]

\* C5: a trusted blur or change at an element with a pending edit, recording
\* enabled, sends exactly one type step with the pending value and removes
\* the entry; and no edit is flushed twice.
C5_BlurFlushesOnce ==
    /\ [][\A node \in Nodes :
             LET el == meaningfulTarget(node) IN
             (/\ recordChangeOrBlur(node, TRUE)
              /\ RECORDING_ENABLED
              /\ el # NoEl
              /\ pendingTypeByEl[el] # NoPending)
             => /\ sent' = Append(sent, TypeStep(el, pendingTypeByEl[el].value))
                /\ pendingTypeByEl'[el] = NoPending]_vars
    /\ []NoDuplicates(flushed)

\* C5, its case: an edit was flushed while its timer is still to run (so a
\* blur or change flushed it), and the timer finds no entry.
C5_Witness ==
    \E tm \in timers :
       /\ \E i \in 1..Len(flushed) : flushed[i] = tm.id
       /\ pendingTypeByEl[tm.el] = NoPending

\* C6: no type step is ever sent for a field that is password-typed,
\* disabled or read-only.
C6_NoStepForProtected ==
    \A i \in 1..Len(sent) : sent[i].t = "type" => ~Protected(sent[i].target)

\* C6, its case: the password field got a trusted input event while
\* recording was enabled.
C6_Witness == lastProtected = "pw" /\ RECORDING_ENABLED

\* C7: sessions do not affect each other: a step of a handler that works for
\* one tab leaves every other tab's tape and recording entry as they were.
C7_SessionsIndependent ==
    [][\A h \in HandlerIds : \A t \in Tabs :
          (HandlerStep(h) /\ handlers[h].tab # t)
          => (tapeStore'[t] = tapeStore[t] /\ stateStore'[t] = stateStore[t])]_vars

\* The locator chain as a table, first match wins: Has says when a value
\* counts as present.
Chain(t, Has(_)) ==
    LET name == IF Has(t.accessibleName) THEN t.accessibleName
                ELSE IF Has(t.text) THEN t.text
                ELSE t.ariaLabel
    IN << [has |-> Has(t.testId),
           expr |-> CallExpr("getByTestId", jsString(t.testId))],
          [has |-> Has(t.role) /\ Has(name),
           expr |-> RoleExpr(t.role, name)],
          [has |-> Has(t.labelText),
           expr |-> CallExpr("getByLabel", jsString(t.labelText))],
          [has |-> Has(t.placeholder),
           expr |-> CallExpr("getByPlaceholder", jsString(t.placeholder))],
          [has |-> Has(t.id),
           expr |-> CallExpr("locator", jsString(Str(<<"#">> \o ToStr(t.id))))],
          [has |-> Has(t.css),
           expr |-> CallExpr("locator", jsString(t.css))],
          [has |-> Has(t.tag),
           expr |-> CallExpr("locator", jsString(t.tag))],
          [has |-> TRUE, expr |-> BodyExpr] >>

FirstMatch(chain) ==
    chain[CHOOSE i \in 1..Len(chain) :
             chain[i].has /\ \A j \in 1..(i - 1) : ~chain[j].has].expr

NonNull(v) == v # JNull

\* C8 as stated: for a descriptor with its tag, the first strategy of the
\* chain whose value is not null is the one used.
C8_FirstNonNullWins ==
    (loc # NotRun /\ Truthy(target.tag)) =>
       loc = FirstMatch(Chain(target, NonNull))

\* C8 as amended: the first strategy of the chain whose value is neither
\* null nor the empty string is the one used (role+name needs both, the
\* name being accessibleName, else text, else ariaLabel; the body locator
\* when even the tag is missing).
C8_FirstNonEmptyWins ==
    loc # NotRun => loc = FirstMatch(Chain(target, Truthy))

\* C8, its case: a descriptor with a test identifier and role+name was
\* compiled.
C8_Witness ==
    /\ loc # NotRun
    /\ Truthy(target.testId)
    /\ Truthy(target.role)
    /\ Truthy(target.accessibleName)

\* The descriptor carries no hint other than its tag.
OnlyTag(t) ==
    /\ Truthy(t.tag)
    /\ \A v \in {t.testId, t.role, t.accessibleName, t.text, t.ariaLabel,
                  t.labelText, t.placeholder, t.id, t.css} : ~Truthy(v)

\* C9: the locator expression chosen is never empty, and for a descriptor
\* with no hint other than its tag it is the tag-name locator.
C9_LocatorNeverEmpty ==
    loc # NotRun =>
       /\ loc # <<>>
       /\ OnlyTag(target) => loc = CallExpr("locator", jsString(target.tag))

\* C9, its case: a descriptor with only its tag was compiled.
C9_Witness == loc # NotRun /\ OnlyTag(target)

\* ---- the compiled script, read back
Compiled == script # NotCompiled

\* The lines between the bootstrap and the teardown.
BodyOf(text) ==
    SubSeq(text, Len(Bootstrap(JNull, <<>>)) + 1, Len(text) - Len(Teardown))

IsStepComment(line) == line # <<>> /\ line[1] = "  // step "
IsGoto(line) == line # <<>> /\ line[1] = "  await page.goto("

\* The lines of a text that open a step's block, and the k-th of them.
CommentLines(text) == {i \in 1..Len(text) : IsStepComment(text[i])}
BlockStart(text, k) ==
    CHOOSE i \in CommentLines(text) :
       Cardinality({j \in CommentLines(text) : j < i}) = k - 1
BlockEnd(text, k) ==
    IF k = Cardinality(CommentLines(text)) THEN Len(text)
    ELSE BlockStart(text, k + 1) - 1
\* The k-th block: its lines, the empty ones left out.
Block(text, k) ==
    SelectSeq(SubSeq(text, BlockStart(text, k), BlockEnd(text, k)),
              LAMBDA line : line # <<>>)

RECURSIVE Unescape(_)
\* The characters a string literal's inside stands for; a quote that no
\* backslash precedes ends the literal early, which no value is.
Unescape(s) ==
    IF s = <<>> THEN <<>>
    ELSE IF Head(s) = "\\"
    THEN (IF Len(s) < 2 THEN <<"<invalid>">>
          ELSE <<s[2]>> \o Unescape(Tail(Tail(s))))
    ELSE IF Head(s) = "\"" THEN <<"<invalid>">>
    ELSE <<Head(s)>> \o Unescape(Tail(s))

\* The string a double-quoted literal evaluates to.
ParseLiteral(lit) ==
    IF Len(lit) < 2 \/ lit[1] # "\"" \/ lit[Len(lit)] # "\"" THEN <<"<invalid>">>
    ELSE Unescape(SubSeq(lit, 2, Len(lit) - 1))

\* C11: compiling a tape never mutates it: the step that returns the script
\* leaves the tape's startUrl, its steps and every field of every step as
\* they were, also when startUrl was null and the URL was inferred.
C11_TapeNotMutated == [][script' # script => tape' = tape]_vars

\* Reached: a tape with no startUrl was compiled and the navigation URL
\* inferred from its first step.
C11_Witness ==
    /\ Compiled
    /\ tape.startUrl = JNull
    /\ tape.steps.k = "list" /\ tape.steps.items # <<>>
    /\ Truthy(tape.steps.items[1].url)
    /\ \E i \in 1..Len(script) : script[i] = GotoLine(tape.steps.items[1].url)

\* C12: compilation is total over step kinds: the body of the script is
\* one block per step, in tape order, each opened by the comment carrying
\* the step's number; the block of a step that is neither a click nor a
\* type is that comment alone, with no action call.
C12_OneBlockPerStep ==
    Compiled =>
      LET body == BodyOf(script)
          steps == StepsOfTape(tape)
      IN  /\ Cardinality(CommentLines(body)) = Len(steps)
          /\ steps # <<>> => BlockStart(body, 1) = 1
          /\ \A k \in 1..Len(steps) :
                LET blk == Block(body, k) IN
                /\ SubSeq(blk[1], 1, 1 + Len(NumStr(k)))
                      = <<"  // step ">> \o NumStr(k)
                /\ IF steps[k].t \in {TypeKind, ClickKind}
                   THEN Len(blk) = 3
                   ELSE Len(blk) = 1

\* Reached: a tape whose first step is of an unknown kind and whose second
\* step is a click was compiled.
C12_Witness ==
    /\ Compiled
    /\ tape.steps.k = "list" /\ Len(tape.steps.items) = 2
    /\ tape.steps.items[1].t = Str(<<"h", "\"">>)
    /\ tape.steps.items[2].t = ClickKind

\* C13: a tape whose steps are missing, or are not a list, compiles to the
\* very script of the same tape with steps: [].
C13_NoListCompilesAsEmpty ==
    (Compiled /\ tape.steps.k # "list")
       => script = buildScript([tape EXCEPT !.steps = StepList(<<>>)], sourcePath)

\* C14: the script navigates before the first step's action, to
\* tape.startUrl when it is set and, when it is null, to the URL of the
\* first step; the first scenario's tape navigates to https://x.test/ and
\* clicks through the test-identifier locator.
C14_NavigatesToStartUrl ==
    Compiled =>
      LET gotos == {i \in 1..Len(script) : IsGoto(script[i])}
          steps == StepsOfTape(tape)
      IN  /\ Cardinality(gotos) = 1
          /\ \A g \in gotos :
                /\ \A i \in CommentLines(script) : g < i
                /\ Truthy(tape.startUrl) => script[g] = GotoLine(tape.startUrl)
                /\ (tape.startUrl = JNull /\ steps # <<>> /\ Truthy(steps[1].url))
                      => script[g] = GotoLine(steps[1].url)
                /\ tape = ClickScenarioTape =>
                      /\ script[g] = GotoLine(ClickScenarioUrl)
                      /\ Block(BodyOf(script), 1)[2] =
                            <<"  await ", "page.", "getByTestId", "(",
                              "\"", "s", "u", "b", "m", "i", "t", "\"", ")",
                              ".click();">>

\* Reached: the first scenario's tape was compiled.
C14_Witness == Compiled /\ tape = ClickScenarioTape

\* C15: a click step lowers to a click on the chosen locator and then a
\* wait for the page to settle whose failure is swallowed; a type step
\* lowers to a fill on the chosen locator, with a literal that evaluates to
\* exactly the recorded value, and then the fixed delay; the second
\* scenario's step fills through the placeholder locator.
C15_ClickAndTypeLowering ==
    Compiled =>
      LET body == BodyOf(script)
          steps == StepsOfTape(tape)
      IN  \A k \in 1..Len(steps) :
             LET blk == Block(body, k)
                 chosen == <<"  await ">> \o pickLocatorExpr(steps[k].target)
             IN  /\ steps[k].t = ClickKind =>
                       /\ blk[2] = chosen \o <<".click();">>
                       /\ blk[3][Len(blk[3])] = ".catch(() => {});"
                 /\ steps[k].t = TypeKind =>
                       LET pre == chosen \o <<".fill(">> IN
                       /\ Len(blk[2]) > Len(pre) + 1
                       /\ SubSeq(blk[2], 1, Len(pre)) = pre
                       /\ blk[2][Len(blk[2])] = ");"
                       /\ ParseLiteral(SubSeq(blk[2], Len(pre) + 1, Len(blk[2]) - 1))
                             = ToStr(steps[k].value)
                       /\ blk[3] = <<"  await page.waitForTimeout(50);">>
                 /\ (tape = TypeScenarioTape /\ k = 1) =>
                       SubSeq(blk[2], 1, 4) =
                          <<"  await ", "page.", "getByPlaceholder", "(">>

\* Reached: a tape was compiled whose first step types a value holding a
\* double quote and whose second step is a click.
C15_Witness ==
    /\ Compiled
    /\ tape.steps.k = "list" /\ Len(tape.steps.items) = 2
    /\ tape.steps.items[1].t = TypeKind
    /\ tape.steps.items[1].value = Str(<<"w", "\"">>)
    /\ tape.steps.items[2].t = ClickKind

\* C16: no step comes of an event that is not user-trusted: a click, an
\* edit, a change or a blur with isTrusted false sends no step, and neither
\* sets a timer nor touches the pending-flush table.
C16_UntrustedIgnored ==
    [][untrusted' => UNCHANGED <<sent, pendingTypeByEl, timers, nextTimer>>]_vars

\* Reached: an event that is not trusted was handled while recording was
\* enabled and an edit was pending (a trusted blur would have flushed it).
C16_Witness ==
    /\ untrusted
    /\ RECORDING_ENABLED
    /\ \E el \in Elements : pendingTypeByEl[el] # NoPending

\* A handler is in ensureTabTape, and has left it.
InEnsure(hd) == hd.pc \in {"ens_get", "ens_set"}
PastEnsure(hd) == hd.pc \in {"app_get", "sr_get"}

\* C17: ensure creates an empty tape (startUrl null, no steps) only when
\* the session has none: a step of ensureTabTape leaves every tape there is
\* as it was, steps, startUrl and time stamps, the one tape it may add is
\* the session's own and is empty, and when ensure returns the session has
\* a tape.
C17_EnsureCreatesOnlyWhenMissing ==
    [][\A h \in HandlerIds :
          (InEnsure(handlers[h]) /\ handlers'[h] # handlers[h]) =>
             /\ \A t \in Tabs :
                   IF tapeStore[t] # NoTape
                   THEN tapeStore'[t] = tapeStore[t]
                   ELSE \/ tapeStore'[t] = NoTape
                        \/ /\ t = handlers[h].tab
                           /\ tapeStore'[t].startUrl = JNull
                           /\ tapeStore'[t].steps = <<>>
             /\ PastEnsure(handlers'[h]) => tapeStore'[handlers[h].tab] # NoTape]_vars

\* Reached: Start has just run ensureTabTape for a tab whose tape already
\* held a step with a url.
C17_Witness ==
    \E h \in HandlerIds :
       /\ handlers[h].kind = "start" /\ handlers[h].pc = "sr_get"
       /\ tapeStore[handlers[h].tab] # NoTape
       /\ tapeStore[handlers[h].tab].steps # <<>>
       /\ Truthy(tapeStore[handlers[h].tab].startUrl)

\* C18: clear discards the tape entirely: no step that a completed Clear
\* removed from a session's tape is ever in that session's tape again,
\* whatever handlers were in flight when the Clear ran (the Clear's own
\* write does leave the session with no tape).
C18_ClearedStepsNeverReappear ==
    \A t \in Tabs : StepIds(tapeStore[t]) \cap discarded[t] = {}

\* The names a text references, as a set.
Referenced(text) ==
    {extractPlaceholders(text)[i] : i \in 1..Len(extractPlaceholders(text))}

\* C19: when a referenced name has no value, substitution fails before
\* any replay: the replay is in no other state than not begun or failed,
\* no text was returned and none was handed to the automation engine.
C19_MissingValueFailsBeforeReplay ==
    (\E n \in Referenced(subScript) : n \notin DOMAIN subValues)
       => /\ subPhase \in {"ready", "failed"}
          /\ subResult = NotRunText
          /\ executed = NotRunText

\* Reached: the script references a and b, a value came for a alone, and
\* substitution has failed.
C19_Witness ==
    /\ Referenced(subScript) = {<<"a">>, <<"b">>}
    /\ DOMAIN subValues = {<<"a">>}
    /\ subPhase = "failed"

\* C20 as stated: a value for every referenced name leaves no marker in the
\* result, for every value map.
C20_NoMarkerLeft ==
    subPhase \in {"substituted", "replayed"} => extractPlaceholders(subResult) = <<>>

\* No opening brace in a text.
NoOpening(text) == \A i \in 1..Len(text) : text[i] # "{"

\* Every pair of opening braces of a text is the start of a marker.
OpeningsAreMarkers(text) ==
    \A i \in 1..(Len(text) - 1) :
        (text[i] = "{" /\ text[i + 1] = "{") => MarkerEnd(text, i) # 0

\* C20 amended: a value for every referenced name leaves no marker in the
\* result when no supplied value holds an opening brace and the script
\* holds no pair of opening braces other than at the start of a marker.
C20_NoMarkerLeftNoOpening ==
    (/\ subPhase \in {"substituted", "replayed"}
     /\ \A n \in DOMAIN subValues : NoOpening(subValues[n])
     /\ OpeningsAreMarkers(subScript))
       => extractPlaceholders(subResult) = <<>>

\* C20, the half of the amendment about the values alone: it does not
\* hold, a pair of braces about a marker makes a marker of a value that
\* has no brace ({{ {{a}} }} with the value c for a leaves {{c}}).
C20_NoMarkerLeftPlainValues ==
    (/\ subPhase \in {"substituted", "replayed"}
     /\ \A n \in DOMAIN subValues : NoOpening(subValues[n]))
       => extractPlaceholders(subResult) = <<>>

\* Reached: a script that references a and b, with closing braces of its
\* own between the two markers, was substituted, a by text of name
\* characters and b by text that ends like a marker.
C20_Witness ==
    /\ subPhase = "substituted"
    /\ subScript = Marker(<<"a">>) \o <<"}", "}">> \o Marker(<<"b">>)
    /\ subValues = (<<"a">> :> <<"c">>) @@ (<<"b">> :> <<"c", "}", "}">>)
    /\ subResult = <<"c", "}", "}", "c", "}", "}">>

\* ---- the descriptor builder

\* The element has a usable id or a stable test identifier.
Identified(el) == UsableId(el) \/ getTestId(el) # JNull

\* buildCssFallback answers with the structural path: the element has no
\* usable id and no identifying attribute of its own.
PathForm(chain) == ~UsableId(chain[1]) /\ StableAttrs(chain[1]) = <<>>

\* The levels of a rendered path: one more than its " > " joints.
Levels(css) == 1 + Cardinality({i \in 1..Len(css.s) : css.s[i] = " > "})

\* C21: the structural fallback path covers at most four levels (the element
\* and its ancestors) and stops at the first level with a usable id or a
\* stable test identifier: no level above such a level is in the path.
C21_PathStopsAtIdentifiedLevel ==
    (hints # NoHints /\ PathForm(element)) =>
        /\ Levels(hints.css) <= MAX_PATH_LEVELS
        /\ \A i \in 1..(Levels(hints.css) - 1) : ~Identified(element[i])

\* The free-text fields of a descriptor, with the bound of each.
FieldBound ==
    [id |-> 120, nameAttr |-> 120, typeAttr |-> 60, testId |-> 80,
     ariaLabel |-> 120, placeholder |-> 120, labelText |-> 120, role |-> 60,
     accessibleName |-> 120, text |-> 80]

\* No leading or trailing whitespace, and no whitespace but single spaces.
Normalized(s) ==
    /\ s # <<>> => (s[1] \notin Whitespace /\ s[Len(s)] \notin Whitespace)
    /\ \A i \in 1..Len(s) : s[i] \in Whitespace => s[i] = " "
    /\ \A i \in 1..(Len(s) - 1) : ~(s[i] = " " /\ s[i + 1] = " ")

\* C22: every free-text field of a descriptor is whitespace-normalized and no
\* longer than its bound, and normalizing it again returns it unchanged.
C22_FieldsNormalizedAndBounded ==
    hints # NoHints =>
        \A f \in DOMAIN FieldBound :
            hints[f] # JNull =>
                /\ Normalized(hints[f].s)
                /\ Len(hints[f].s) <= FieldBound[f]
                /\ safeTrim(hints[f], FieldBound[f]) = hints[f].s

\* ---- the service worker and the content script in step

\* Nothing in progress: no handler at work, nothing on its way to the
\* content script, which has loaded and had the answer to its hello.
Settled ==
    /\ csLoaded
    /\ helloInFlight = <<>>
    /\ channel = <<>>
    /\ \A h \in HandlerIds : ~Busy(h)

\* C23: after the load handshake and any sequence of Start and Stop, once
\* every message and response has been delivered, the content script's
\* RECORDING_ENABLED equals the recording flag stored for its tab.
C23_FlagsAgreeWhenSettled ==
    Settled => RECORDING_ENABLED = IsRecording(stateStore, SyncTab)

\* ---- the legacy content script

\* C25: in the legacy content script, while recording is on, the state in
\* storage equals the recorded actions in memory after every handled event:
\* a reload restores every action with its latest text.
C25_PersistedEqualsRecorded ==
    isRecording =>
        /\ persisted.isRecording
        /\ persisted.recordedActions = recordedActions

\* ---- the service worker: closed tabs, accepted steps

\* C24: when the onRemoved handler of a closed tab completes, that tab has
\* no recording entry, and its tape and every other tab's recording entry
\* are as they were, whatever Start or Stop is in flight.
C24_RemovedDeletesOnlyItsEntry ==
    [][\A h \in HandlerIds :
          removedSet(h) =>
             /\ stateStore'[handlers[h].tab] = NoState
             /\ tapeStore' = tapeStore
             /\ \A t \in Tabs \ {handlers[h].tab} : stateStore'[t] = stateStore[t]]_vars

\* A Clear for tab t takes effect in this step.
Clears(t) == \E h \in HandlerIds : clearSet(h) /\ handlers[h].tab = t

\* The messages (by number of arrival) whose steps a tape holds, in order.
Arrivals(tp) == [i \in 1..Len(StepsOf(tp)) |-> StepsOf(tp)[i].n]

\* C26: no accepted step is lost or duplicated: a step on a session's tape
\* stays there, once, until the tape is cleared, and the steps are in the
\* order their messages arrived, also when handlers interleave at their
\* storage reads and writes.
C26_AcceptedStepsKeptInOrder ==
    [][\A t \in Tabs :
          ~Clears(t) =>
             LET before == Arrivals(tapeStore[t])
                 after == Arrivals(tapeStore'[t])
             IN  /\ \A i \in 1..Len(before) : \E j \in 1..Len(after) : after[j] = before[i]
                 /\ \A i, j \in 1..Len(after) : i < j => after[i] < after[j]]_vars

\* ---- the capture engine: order, timers, the recording flag

\* A step is sent in this step of the engine.
Sends == Len(sent') > Len(sent)

\* C27: steps are emitted in the order of the gestures: the type step of an
\* edit is emitted before the click step of a later click, so no click step
\* is sent while an edit waits to be flushed.
C27_NoClickBeforePendingType ==
    [][(Sends /\ sent'[Len(sent')].t = "click")
          => \A el \in Elements : pendingTypeByEl[el] = NoPending]_vars

\* The timers outstanding for an element.
TimersOf(el) == {tm \in timers : tm.el = el}

\* C28: each element has at most one outstanding flush timer, and has one
\* exactly when it has an entry in the pending-flush table.
C28_OneTimerPerPendingEntry ==
    \A el \in Elements :
        /\ Cardinality(TimersOf(el)) <= 1
        /\ (TimersOf(el) # {}) <=> (pendingTypeByEl[el] # NoPending)

\* C29: a step message is sent only while RECORDING_ENABLED is true, also
\* for an edit that was pending when recording was disabled.
C29_SendsOnlyWhileEnabled == [][Sends => RECORDING_ENABLED]_vars

\* ---- the recording flag and the tape

\* The session's recording flag is true and it has no tape.
RecordingWithoutTape(stateByTab, tapeByTab, t) ==
    IsRecording(stateByTab, t) /\ tapeByTab[t] = NoTape

\* C30, as stated: whenever a session's recording flag is true, a tape
\* exists for that session, after any sequence of Start, Stop, Clear and
\* step messages.
C30_TapeExistsWhileRecording ==
    \A t \in Tabs : ~RecordingWithoutTape(stateStore, tapeStore, t)

\* C30, amended: with the messages handled one at a time, a session whose
\* recording flag is true has a tape unless a Clear has discarded it: the
\* flag is true with no tape only from a Clear of that session on.
C30_NoTapeWhileRecordingOnlyByClear ==
    [][\A t \in Tabs :
          RecordingWithoutTape(stateStore', tapeStore', t)
             => (RecordingWithoutTape(stateStore, tapeStore, t) \/ Clears(t))]_vars

\* Reached: a session is recording and has a tape again after a Clear
\* discarded its steps.
C30_Witness ==
    /\ \A h \in HandlerIds : ~Busy(h)
    /\ \E t \in Tabs :
          /\ IsRecording(stateStore, t)
          /\ tapeStore[t] # NoTape
          /\ discarded[t] # {}

\* ---- Start and Stop, and the tape

\* C31: Start and Stop leave an existing tape as it is: no step of a Stop
\* handler, and no step of a Start handler for a session that has a tape,
\* changes a tape's steps or startUrl; so a step recorded after a Stop or
\* Start is appended after the steps the tape held.
C31_StartStopKeepTape ==
    [][\A h \in HandlerIds :
          /\ (handlers[h].kind \in {"start", "stop"} /\ HandlerStep(h))
                => \A t \in Tabs :
                      tapeStore[t] # NoTape => tapeStore'[t] = tapeStore[t]
          /\ (appendSet(h) /\ tapeStore[handlers[h].tab] # NoTape)
                => StepsOf(tapeStore'[handlers[h].tab])
                     = Append(StepsOf(tapeStore[handlers[h].tab]), handlers[h].step)]_vars

\* Reached: a step, then a Start for the session, which has a tape, then a
\* second step: the tape holds both, the recording entry is of the time
\* between them.
C31_Witness ==
    /\ \A h \in HandlerIds : ~Busy(h)
    /\ \E t \in Tabs :
          /\ IsRecording(stateStore, t)
          /\ Len(StepsOf(tapeStore[t])) = 2
          /\ tapeStore[t].steps[1].n < stateStore[t].updatedAt
          /\ stateStore[t].updatedAt < tapeStore[t].steps[2].n

\* ---- the start URL: the compiler and the tape assembler

\* The startUrl appendStep gives a tape that holds these steps: the url of
\* the first that carries one.
AssembledStartUrl(steps) == FirstUrl(steps)

\* C32: the compiler infers the start URL as the tape assembler sets it:
\* for a tape with startUrl null the script navigates to the URL of the
\* first step that carries a URL, and to about:blank only when no step
\* carries one.
C32_InferenceAgreesWithAssembler ==
    (Compiled /\ tape.startUrl = JNull /\ tape.steps.k = "list") =>
        \E g \in 1..Len(script) :
            /\ IsGoto(script[g])
            /\ script[g] = GotoLine(Or(AssembledStartUrl(tape.steps.items), AboutBlank))

====
